---- MODULE Spec2Model ----
(***************************************************************************)
(* Model of the per-call media core of Asterisk-AI-Voice-Agent.            *)
(*                                                                         *)
(* Part 1: StreamingPlaybackManager                                        *)
(* (src/src/core/streaming_playback_manager.py) for ONE call id.  Every    *)
(* coroutine of the manager is a process with a program position; a step   *)
(* of a process is the code between two suspension points (an `await` on   *)
(* a sleep, a queue, the transport or a mutating session-store call).      *)
(* A mutating store call applies its effect when it is called and may      *)
(* yield before it returns; get_by_call_id is a lock-free read and does    *)
(* not yield.  asyncio runs one coroutine at a time, so steps are atomic.  *)
(*                                                                         *)
(* Audio is modelled by byte identities: byte k of the audio offered to    *)
(* stream s is the number 100*s + k, padding and filler bytes are 0.  The  *)
(* stream runs the mu-law -> mu-law fast path of _process_audio_chunk      *)
(* (lines 950-1045), which returns the chunk unchanged, and None for an    *)
(* empty chunk.                                                            *)
(***************************************************************************)
EXTENDS Integers, Sequences, FiniteSets, TLC

(* ---------------------------- bounds ---------------------------------- *)
MaxStreams == 2
MaxChunks == 2
MaxChunkLen == 3
MaxStops == 2
MaxFaults == 1
\* Chunks the provider delivers to a stream that is warming up: one more
\* than the jitter buffer holds.
MaxWarmupChunks == 4
\* Bytes per 20 ms frame.  The code's frame is 160 bytes of mu-law at 8 kHz
\* (_frame_size_bytes); the model keeps the framing and scales the size down.
FrameSize == 2

(* ----------------------- configuration defaults ------------------------ *)
jitter_buffer_ms == 50
chunk_size_ms == 20
min_start_ms == 120
low_watermark_ms == 80
provider_grace_ms == 500

Streams == 1..MaxStreams
Stops == 1..MaxStops
ChunkLens == 1..MaxChunkLen
Transports == {"audiosocket", "externalmedia"}

Max(a, b) == IF a >= b THEN a ELSE b
Min(a, b) == IF a <= b THEN a ELSE b
CeilDiv(a, b) == (a + b - 1) \div b
Last(s) == s[Len(s)]

RECURSIVE SumLen(_)
SumLen(ss) == IF ss = <<>> THEN 0 ELSE Len(Head(ss)) + SumLen(Tail(ss))

(* ------------------- per-stream thresholds (start) --------------------- *)
jb_chunks == Max(1, CeilDiv(Max(0, jitter_buffer_ms), Max(1, chunk_size_ms)))

BaseMinStartChunks == Max(1, CeilDiv(min_start_ms, Max(1, chunk_size_ms)))

ConfiguredLowWatermarkChunks == Max(0, CeilDiv(low_watermark_ms, Max(1, chunk_size_ms)))

\* adaptive_min_ms: greeting keeps the configured warm-up, a back-to-back
\* resume halves it (>= 80 ms), a cold start raises it to >= 400 ms.
adaptive_min_ms(playback_type, back_to_back) ==
    LET base_min_ms == Max(1, min_start_ms)
    IN  IF playback_type = "greeting" THEN base_min_ms
        ELSE IF back_to_back THEN Max(80, base_min_ms \div 2)
        ELSE Max(base_min_ms, 400)

min_start_chunks(playback_type, back_to_back) ==
    LET adaptive_min_chunks ==
            Max(1, CeilDiv(adaptive_min_ms(playback_type, back_to_back), Max(1, chunk_size_ms)))
        configured_min_start ==
            IF playback_type = "greeting" THEN BaseMinStartChunks ELSE adaptive_min_chunks
        max_startable == Max(1, jb_chunks - 1)
    IN  Max(1, Min(configured_min_start, max_startable))

low_watermark_chunks(playback_type, back_to_back) ==
    LET msc == min_start_chunks(playback_type, back_to_back)
        scaled_lw == Max(0, CeilDiv(msc * 2, 3))
        configured_low_watermark == Max(ConfiguredLowWatermarkChunks, scaled_lw)
        max_low == Max(0, msc - 1)
        half_capacity == Max(0, jb_chunks \div 2)
        effective_cap == Max(0, Min(max_low, half_capacity))
    IN  IF configured_low_watermark = 0 THEN 0
        ELSE Min(configured_low_watermark, effective_cap)

(* ------------------------------ state ---------------------------------- *)
VARIABLES
    audio_transport,    \* self.audio_transport
    session,            \* the CallSession held by the session store (present = the store has it)
    gating_token,       \* the call's gating token (0 = empty)
    active_streams,     \* self.active_streams[call_id]; stream_id 0 = no entry
    jitter_buffers,     \* self.jitter_buffers[call_id]: whose queue is registered (0 = none)
    queues,             \* the asyncio.Queue each start created, as a sequence of chunks
    frame_remainders,   \* self.frame_remainders[call_id] (<<>> = no entry)
    startup_ready,      \* self._startup_ready.get(call_id, False)
    last_segment_end,   \* call_id in self._last_segment_end_ts
    keepalive_tasks,    \* self.keepalive_tasks[call_id]: whose keepalive is registered (0 = none)
    starter,            \* start_streaming_playback invocations
    producer,           \* _stream_audio_loop tasks
    pacer,              \* _pacer_loop tasks
    keepalive,          \* _keepalive_loop tasks
    stopper,            \* stop_streaming_playback invocations
    txlog,              \* frames accepted by the transport, in order
    endlog,             \* end reasons emitted by _cleanup_stream, in order
    history,            \* what happened to which stream: [ev, sid] records
    offered,            \* chunks the provider has offered so far
    faults,             \* failed sends and expired timers so far
    budget,             \* what the environment may do in this run (never changes)
    \* ---- RTPServer (src/rtp_server.py) ----
    running,            \* self.running
    lock_remote_endpoint,   \* self.lock_remote_endpoint
    allowed_remote_hosts,   \* self.allowed_remote_hosts
    sessions,           \* self.sessions: call id -> RTPSession
    port_allocation,    \* self.port_allocation: port -> call id (0 = free)
    ssrc_to_call_id,    \* self.ssrc_to_call_id: ssrc -> call id (0 = unmapped)
    receiver,           \* each session's _rtp_receiver_loop task
    delivered,          \* engine_callback invocations per call
    rtp_event,          \* the last RTP operation and what it returned
    \* ---- tool calling (src/tools) ----
    call_session,       \* the CallSession the tools see: cleanup_after_tts, transfer_active,
                        \* conversation_history
    tools_config,       \* context["config"]["tools"]
    allowed_tools,      \* context["allowed_tools"]
    adapter,            \* the OpenAI adapter's tool call in progress, or the last one
    ws_log,             \* events sent on the provider websocket, in order
    ari_log,            \* ARI commands the tools have issued, in order
    \* ---- DeepgramProvider (src/providers/deepgram.py) ----
    dg,                 \* the provider object's fields and its configure position
    dg_ws,              \* the state of each session's websocket connection
    dg_tasks,           \* per session: receive loop position and pending timers
    dg_events,          \* the events handed to on_event, in order
    dg_sent,            \* what was sent on the websockets, in order
    \* ---- PipelineOrchestrator (src/pipelines/orchestrator.py) ----
    orch,               \* the orchestrator's fields and the position of stop()
    orch_release,       \* per resolution: how far its release has got
    orch_log,           \* per resolution: the calls made on its adapters
    orch_event,         \* the last operation and what it returned
    \* ---- session store (spec 4.D) and its writers ----
    store,              \* the session the store holds for the call, with its version
    store_tasks,        \* per writer: its position and the session object it got
    store_log,          \* the tools whose write was applied, the manager writers they overtook
    \* ---- thresholds of a stream (streaming_playback_manager.py) ----
    streaming_config,   \* self.streaming_config: the configured times in ms
    computed,           \* what the last start call or cleanup computed from it
    \* ---- PCM16 egress byte order (streaming_playback_manager.py) ----
    egress,             \* the manager's egress settings, the stream_info and the correction metric
    egress_log,         \* the frames of the stream: bytes in, bytes out, probed or not
    \* ---- attended_transfer (tools/telephony/attended_transfer.py) ----
    xfer,               \* the attended_transfer call in progress: position, session, result
    xfer_call,          \* the call: stored session, music on hold, agent legs
    \* ---- the local provider (providers/local.py) ----
    local,              \* the local provider: websocket, position in _reconnect, attempts, waits
    \* ---- ToolRegistry as it changes (src/tools/registry.py) ----
    registry            \* the keys of _tools in order, and the last operations on it

vars == <<audio_transport, session, gating_token, active_streams, jitter_buffers,
          queues, frame_remainders, startup_ready, last_segment_end, keepalive_tasks,
          starter, producer, pacer, keepalive, stopper, txlog, endlog, history,
          offered, faults, budget,
          running, lock_remote_endpoint, allowed_remote_hosts, sessions, port_allocation,
          ssrc_to_call_id, receiver, delivered, rtp_event,
          call_session, tools_config, allowed_tools, adapter, ws_log, ari_log,
          dg, dg_ws, dg_tasks, dg_events, dg_sent,
          orch, orch_release, orch_log, orch_event,
          store, store_tasks, store_log,
          streaming_config, computed,
          egress, egress_log,
          xfer, xfer_call,
          local, registry>>

\* The state of each component; no operation of one component touches the
\* state of another.
rtp_vars == <<running, lock_remote_endpoint, allowed_remote_hosts, sessions,
              port_allocation, ssrc_to_call_id, receiver, delivered, rtp_event>>

playback_vars == <<audio_transport, session, gating_token, active_streams, jitter_buffers,
                   queues, frame_remainders, startup_ready, last_segment_end,
                   keepalive_tasks, starter, producer, pacer, keepalive, stopper, txlog,
                   endlog, history, offered, faults, budget>>

tool_vars == <<call_session, tools_config, allowed_tools, adapter, ws_log, ari_log>>

deepgram_vars == <<dg, dg_ws, dg_tasks, dg_events, dg_sent>>

orchestrator_vars == <<orch, orch_release, orch_log, orch_event>>

store_vars == <<store, store_tasks, store_log>>

config_vars == <<streaming_config, computed>>

egress_vars == <<egress, egress_log>>

transfer_vars == <<xfer, xfer_call>>

local_vars == <<local>>

beyond_playback == <<rtp_vars, tool_vars, deepgram_vars, orchestrator_vars, store_vars, config_vars, egress_vars, transfer_vars, local_vars, registry>>
beyond_rtp == <<playback_vars, tool_vars, deepgram_vars, orchestrator_vars, store_vars, config_vars, egress_vars, transfer_vars, local_vars, registry>>
beyond_tools == <<playback_vars, rtp_vars, deepgram_vars, orchestrator_vars, store_vars, config_vars, egress_vars, transfer_vars, local_vars, registry>>
beyond_deepgram == <<playback_vars, rtp_vars, tool_vars, orchestrator_vars, store_vars, config_vars, egress_vars, transfer_vars, local_vars, registry>>
beyond_orchestrator == <<playback_vars, rtp_vars, tool_vars, deepgram_vars, store_vars, config_vars, egress_vars, transfer_vars, local_vars, registry>>
beyond_registry == <<playback_vars, rtp_vars, tool_vars, deepgram_vars, orchestrator_vars, store_vars, config_vars, egress_vars, transfer_vars, local_vars>>
beyond_local == <<playback_vars, rtp_vars, tool_vars, deepgram_vars, orchestrator_vars, store_vars, config_vars, egress_vars, transfer_vars, registry>>
beyond_transfer == <<playback_vars, rtp_vars, tool_vars, deepgram_vars, orchestrator_vars, store_vars, config_vars, egress_vars, local_vars, registry>>
beyond_egress == <<playback_vars, rtp_vars, tool_vars, deepgram_vars, orchestrator_vars, store_vars, config_vars, transfer_vars, local_vars, registry>>
beyond_config == <<playback_vars, rtp_vars, tool_vars, deepgram_vars, orchestrator_vars, store_vars, egress_vars, transfer_vars, local_vars, registry>>
beyond_store == <<playback_vars, rtp_vars, tool_vars, deepgram_vars, orchestrator_vars, config_vars, egress_vars, transfer_vars, local_vars, registry>>

\* The runs explored: one stream with failing sends, expiring timers and a
\* stop call, several start calls on a healthy transport, or start calls
\* around a stop call.
Scenarios ==
    {[starts |-> 1, chunks |-> MaxChunks, faults |-> MaxFaults, stops |-> MaxStops],
     [starts |-> MaxStreams, chunks |-> MaxChunks, faults |-> 0, stops |-> 0],
     [starts |-> MaxStreams, chunks |-> 1, faults |-> 0, stops |-> 1]}

NoInfo ==
    [stream_id |-> 0, min_start_chunks |-> 0, low_watermark_chunks |-> 0,
     buffered_bytes |-> 0, queued_bytes |-> 0, tx_bytes |-> 0, frames_sent |-> 0,
     underflow_events |-> 0, end_reason |-> "none"]

Active == active_streams.stream_id # 0

\* What a start_streaming_playback invocation returned: a stream id, Null
\* (Python's None), or NotReturned while it is still running.
Null == 0
NotReturned == -1

\* _generate_stream_id: invocation i of start produces stream id i.
_generate_stream_id(i) == i

\* is_stream_active: an entry exists and its streaming_task is not done.
is_stream_active ==
    /\ Active
    /\ producer[active_streams.stream_id].pc # "done"

\* The playback manager after __init__, on the given transport, with or
\* without a session for the call in the session store.
PlaybackInit(transport, present, scenario) ==
    /\ audio_transport = transport
    /\ session = [present |-> present,
                  current_stream_id |-> 0, streaming_started |-> FALSE,
                  streaming_fallback_count |-> 0, last_streaming_error |-> "none"]
    /\ gating_token = 0
    /\ active_streams = NoInfo
    /\ jitter_buffers = 0
    /\ queues = [s \in Streams |-> <<>>]
    /\ frame_remainders = <<>>
    /\ startup_ready = FALSE
    /\ last_segment_end = FALSE
    /\ keepalive_tasks = 0
    /\ starter = [s \in Streams |-> [pc |-> "idle", ready |-> FALSE, ret |-> NotReturned]]
    /\ producer = [s \in Streams |-> [pc |-> "unborn", chunk |-> <<>>, nbytes |-> 0]]
    /\ pacer = [s \in Streams |-> [pc |-> "unborn", pending |-> <<>>]]
    /\ keepalive = [s \in Streams |-> "unborn"]
    /\ stopper = [k \in Stops |-> [pc |-> "idle", sid |-> 0, ret |-> "none"]]
    /\ txlog = <<>>
    /\ endlog = <<>>
    /\ history = {}
    /\ offered = 0
    /\ faults = 0
    /\ budget = scenario

(* ------------------- session store (spec 4.D / 4.I) -------------------- *)
\* set_gating_token / on_tts_start: succeeds iff the token is empty or equal.
set_gating_token_ok(token) == gating_token = 0 \/ gating_token = token

\* clear_gating_token / on_tts_end: clears iff the token equals `token`.
clear_gating_token(token) == IF gating_token = token THEN 0 ELSE gating_token

(* --------------------- start_streaming_playback ------------------------ *)
\* Lines 304-434: the reuse check, the session lookup (None when the store
\* has no session for the call: the call returns None), the new jitter
\* buffer, the thresholds and the session upsert.  Invocations run in the
\* order of their stream ids.
StartCall(i) ==
    /\ starter[i].pc = "idle"
    /\ i <= budget.starts
    /\ \A j \in Streams : j < i => starter[j].pc # "idle"
    /\ IF is_stream_active
       THEN /\ starter' = [starter EXCEPT ![i] =
                              [pc |-> "done", ready |-> FALSE, ret |-> active_streams.stream_id]]
            /\ UNCHANGED <<jitter_buffers, session>>
       ELSE IF ~session.present
       THEN /\ starter' = [starter EXCEPT ![i] =
                              [pc |-> "done", ready |-> FALSE, ret |-> Null]]
            /\ UNCHANGED <<jitter_buffers, session>>
       ELSE \E back_to_back \in (IF last_segment_end THEN BOOLEAN ELSE {FALSE}) :
            /\ starter' = [starter EXCEPT ![i] =
                              [pc |-> "gate", ready |-> back_to_back, ret |-> NotReturned]]
            /\ jitter_buffers' = i
            /\ session' = [session EXCEPT !.streaming_started = TRUE,
                                          !.current_stream_id = _generate_stream_id(i)]
    /\ UNCHANGED <<audio_transport, gating_token, active_streams, queues, frame_remainders,
                   startup_ready, last_segment_end, keepalive_tasks, producer, pacer,
                   keepalive, stopper, txlog, endlog, history,
                   offered, faults, budget, beyond_playback>>

\* Lines 436-447: the gating CAS; on contention the call returns None.
StartGate(i) ==
    /\ starter[i].pc = "gate"
    /\ IF set_gating_token_ok(_generate_stream_id(i))
       THEN /\ gating_token' = _generate_stream_id(i)
            /\ starter' = [starter EXCEPT ![i].pc = "register"]
       ELSE /\ starter' = [starter EXCEPT ![i].pc = "done", ![i].ret = Null]
            /\ UNCHANGED gating_token
    /\ UNCHANGED <<audio_transport, session, active_streams, jitter_buffers, queues,
                   frame_remainders, startup_ready, last_segment_end, keepalive_tasks,
                   producer, pacer, keepalive, stopper, txlog, endlog, history,
                   offered, faults, budget, beyond_playback>>

\* Lines 449-594: the three tasks are created and the stream is registered.
StartRegister(i, playback_type) ==
    /\ starter[i].pc = "register"
    /\ producer' = [producer EXCEPT ![i].pc = "wait"]
    /\ pacer' = [pacer EXCEPT ![i].pc = "top"]
    /\ keepalive' = [keepalive EXCEPT ![i] = "sleep"]
    /\ keepalive_tasks' = i
    /\ active_streams' =
          [NoInfo EXCEPT !.stream_id = _generate_stream_id(i),
                         !.min_start_chunks = min_start_chunks(playback_type, starter[i].ready),
                         !.low_watermark_chunks = low_watermark_chunks(playback_type, starter[i].ready)]
    /\ startup_ready' = starter[i].ready
    /\ history' = IF starter[i].ready
                  THEN history \cup {[ev |-> "resumed", sid |-> _generate_stream_id(i)]}
                  ELSE history
    /\ starter' = [starter EXCEPT ![i].pc = "done", ![i].ret = _generate_stream_id(i)]
    /\ UNCHANGED <<audio_transport, session, gating_token, jitter_buffers, queues,
                   frame_remainders, last_segment_end, txlog, endlog,
                   stopper,
                   offered, faults, budget, beyond_playback>>

(* ------------------------- shared helpers ------------------------------ *)
\* The environment lets at most MaxFaults sends fail or timers expire.
Env(ok) ==
    /\ ok \/ faults < budget.faults
    /\ faults' = IF ok THEN faults ELSE faults + 1

\* _decrement_buffered_bytes (lines 1798-1808)
_decrement_buffered_bytes(info, byte_count) ==
    IF byte_count <= 0 \/ info.stream_id = 0 THEN info
    ELSE [info EXCEPT !.buffered_bytes = Max(0, @ - byte_count)]

\* _estimate_available_frames (lines 1764-1788) with include_remainder=True
_estimate_available_frames(q, remainder) ==
    LET bb0 == IF Active THEN active_streams.buffered_bytes ELSE 0
        bb1 == IF bb0 <= 0 THEN Len(q) * FrameSize ELSE bb0
        bb2 == bb1 + Len(remainder)
    IN  Max(0, bb2 \div Max(1, FrameSize))

\* _get_low_watermark_frames (lines 1790-1796)
_get_low_watermark_frames ==
    Max(0, IF Active THEN active_streams.low_watermark_chunks ELSE ConfiguredLowWatermarkChunks)

\* _record_fallback (lines 1836-1846)
_record_fallback(sess, reason) ==
    [sess EXCEPT !.streaming_fallback_count = @ + 1, !.last_streaming_error = reason]

\* _fallback_to_file_playback (lines 1848-1935): drains the queue registered
\* in self.jitter_buffers[call_id] and hands the bytes to file playback.
DrainedQueues == IF jitter_buffers = 0 THEN queues ELSE [queues EXCEPT ![jitter_buffers] = <<>>]

DrainedInfo(info) ==
    IF jitter_buffers = 0 THEN info
    ELSE _decrement_buffered_bytes(info, SumLen(queues[jitter_buffers]))

\* Zero padding of the tail to one frame (lines 2207-2210).
PadToFrame(rem) ==
    SubSeq(rem \o [k \in 1..FrameSize |-> 0], 1, FrameSize)

(* --------------------------- _cleanup_stream --------------------------- *)
\* Lines 2184-2227, after the provider grace sleep: a non-empty remainder is
\* sent as a final frame (the result of the send is ignored) and the cleanup
\* suspends on the send; with no remainder it goes on to clear the token.
CleanupFlush(stream_id, ok) ==
    LET rem == frame_remainders
        frame == IF audio_transport = "audiosocket" THEN PadToFrame(rem) ELSE rem
        info1 == _decrement_buffered_bytes(active_streams, Len(rem))
    IN  IF rem = <<>>
        THEN /\ ok
             /\ gating_token' = clear_gating_token(stream_id)
             /\ UNCHANGED <<txlog, active_streams, faults>>
        ELSE /\ Env(ok)
             /\ txlog' = IF ok
                         THEN Append(txlog, [sid |-> stream_id, by |-> "cleanup",
                                             kind |-> "tail", data |-> frame])
                         ELSE txlog
             /\ active_streams' =
                    IF ok /\ info1.stream_id # 0
                    THEN [info1 EXCEPT !.tx_bytes = @ + Len(frame)]
                    ELSE info1
             /\ UNCHANGED gating_token

AfterFlush == IF frame_remainders = <<>> THEN "cl_remove" ELSE "cl_tail"

\* Lines 2218-2227: the gating token is cleared if it is still this stream's.
CleanupClear(stream_id) ==
    gating_token' = clear_gating_token(stream_id)

\* A cleanup that resets everything except the call's active_streams entry.
CleanupRemove_KeepsEntry(stream_id) ==
    /\ endlog' = Append(endlog, [sid |-> stream_id, entry |-> active_streams.stream_id,
                                 reason |-> "streaming-ended",
                                 tx_bytes |-> active_streams.tx_bytes,
                                 queued_bytes |-> active_streams.queued_bytes,
                                 underflow_events |-> active_streams.underflow_events])
    /\ active_streams' = active_streams
    /\ last_segment_end' = TRUE
    /\ jitter_buffers' = 0
    /\ startup_ready' = FALSE
    /\ session' = [session EXCEPT !.streaming_started = FALSE, !.current_stream_id = 0]

\* Lines 2229-2312: the end reason is emitted, the call's entry is removed
\* from active_streams whichever stream it holds, the jitter buffer and the
\* startup flag are dropped and the session's streaming flags are reset.
CleanupRemove(stream_id) ==
    /\ endlog' = IF Active
                 THEN Append(endlog, [sid |-> stream_id, entry |-> active_streams.stream_id,
                                      reason |-> IF active_streams.end_reason = "none"
                                                 THEN "streaming-ended"
                                                 ELSE active_streams.end_reason,
                                      tx_bytes |-> active_streams.tx_bytes,
                                      queued_bytes |-> active_streams.queued_bytes,
                                      underflow_events |-> active_streams.underflow_events])
                 ELSE endlog
    /\ active_streams' = NoInfo
    /\ last_segment_end' = TRUE
    /\ jitter_buffers' = 0
    /\ startup_ready' = FALSE
    /\ session' = [session EXCEPT !.streaming_started = FALSE, !.current_stream_id = 0]

\* Line 2316: the remainder record is dropped last.
CleanupPop == frame_remainders' = <<>>

(* -------------------------- _stream_audio_loop ------------------------- *)
NextChunk(s, n) == [k \in 1..n |-> 100 * s + producer[s].nbytes + k]

\* Lines 616-652 and 667-677: one wake-up of the wait on audio_chunks: a
\* chunk, the None sentinel, or the fallback timeout.
ProducerChunk(s, n) ==
    /\ producer[s].pc = "wait"
    /\ offered < budget.chunks
    /\ offered' = offered + 1
    /\ producer' = [producer EXCEPT ![s].pc = "put", ![s].chunk = NextChunk(s, n),
                                    ![s].nbytes = @ + n]
    /\ UNCHANGED <<audio_transport, session, gating_token, active_streams, jitter_buffers,
                   queues, frame_remainders, startup_ready, last_segment_end,
                   keepalive_tasks, starter, pacer, keepalive, stopper, txlog, endlog,
                   history,
                   faults, budget, beyond_playback>>

ProducerSentinel(s) ==
    /\ producer[s].pc = "wait"
    /\ active_streams' = IF Active THEN [active_streams EXCEPT !.end_reason = "end-of-stream"]
                         ELSE active_streams
    /\ producer' = [producer EXCEPT ![s].pc = "cl_grace"]
    /\ UNCHANGED <<audio_transport, session, gating_token, jitter_buffers, queues,
                   frame_remainders, startup_ready, last_segment_end, keepalive_tasks,
                   starter, pacer, keepalive, stopper, txlog, endlog, history,
                   offered, faults, budget, beyond_playback>>

ProducerTimeout(s) ==
    /\ producer[s].pc = "wait"
    /\ Env(FALSE)
    /\ history' = history \cup {[ev |-> "timeout", sid |-> s]}
    /\ session' = _record_fallback(session, "timeout>")
    /\ producer' = [producer EXCEPT ![s].pc = "fallback"]
    /\ UNCHANGED <<audio_transport, gating_token, active_streams, jitter_buffers, queues,
                   frame_remainders, startup_ready, last_segment_end, keepalive_tasks,
                   starter, pacer, keepalive, stopper, txlog, endlog,
                   offered, budget, beyond_playback>>

\* Line 675, then `break` into the finally clause.
ProducerFallback(s) ==
    /\ producer[s].pc = "fallback"
    /\ queues' = DrainedQueues
    /\ active_streams' = DrainedInfo(active_streams)
    /\ producer' = [producer EXCEPT ![s].pc = "cl_grace"]
    /\ UNCHANGED <<audio_transport, session, gating_token, jitter_buffers,
                   frame_remainders, startup_ready, last_segment_end, keepalive_tasks,
                   starter, pacer, keepalive, stopper, txlog, endlog, history,
                   offered, faults, budget, beyond_playback>>

\* Lines 655-663: put blocks while the bounded queue is full.
ProducerPut(s) ==
    /\ producer[s].pc = "put"
    /\ Len(queues[s]) < jb_chunks
    /\ queues' = [queues EXCEPT ![s] = Append(@, producer[s].chunk)]
    /\ active_streams' =
          IF Active
          THEN [active_streams EXCEPT !.buffered_bytes = @ + Len(producer[s].chunk),
                                      !.queued_bytes = @ + Len(producer[s].chunk)]
          ELSE active_streams
    /\ producer' = [producer EXCEPT ![s].pc = "wait", ![s].chunk = <<>>]
    /\ UNCHANGED <<audio_transport, session, gating_token, jitter_buffers,
                   frame_remainders, startup_ready, last_segment_end, keepalive_tasks,
                   starter, pacer, keepalive, stopper, txlog, endlog, history,
                   offered, faults, budget, beyond_playback>>

\* Line 688: the producer's own _cleanup_stream(call_id, stream_id).
ProducerCleanupFlush(s, ok) ==
    /\ producer[s].pc = "cl_grace"
    /\ CleanupFlush(s, ok)
    /\ producer' = [producer EXCEPT ![s].pc = AfterFlush]
    /\ UNCHANGED <<audio_transport, session, jitter_buffers, queues,
                   frame_remainders, startup_ready, last_segment_end, keepalive_tasks,
                   starter, pacer, keepalive, stopper, endlog, history,
                   offered, budget, beyond_playback>>

ProducerCleanupClear(s) ==
    /\ producer[s].pc = "cl_tail"
    /\ CleanupClear(s)
    /\ producer' = [producer EXCEPT ![s].pc = "cl_remove"]
    /\ UNCHANGED <<audio_transport, session, active_streams, jitter_buffers, queues,
                   frame_remainders, startup_ready, last_segment_end, keepalive_tasks,
                   starter, pacer, keepalive, stopper, txlog, endlog, history,
                   offered, faults, budget, beyond_playback>>

ProducerCleanupRemove(s) ==
    /\ producer[s].pc = "cl_remove"
    /\ CleanupRemove(s)
    /\ producer' = [producer EXCEPT ![s].pc = "cl_pop"]
    /\ UNCHANGED <<audio_transport, gating_token, queues, frame_remainders,
                   keepalive_tasks, starter, pacer, keepalive, stopper, txlog,
                   history,
                   offered, faults, budget, beyond_playback>>

ProducerCleanupPop(s) ==
    /\ producer[s].pc = "cl_pop"
    /\ CleanupPop
    /\ producer' = [producer EXCEPT ![s].pc = "done"]
    /\ UNCHANGED <<audio_transport, session, gating_token, active_streams, jitter_buffers,
                   queues, startup_ready, last_segment_end, keepalive_tasks, starter,
                   pacer, keepalive, stopper, txlog, endlog, history,
                   offered, faults, budget, beyond_playback>>

(* ----------------------- stop_streaming_playback ----------------------- *)
\* task.cancel() on the producer: CancelledError is raised at its current
\* await.  In the loop that runs the finally clause, i.e. its own
\* _cleanup_stream; inside _cleanup_stream it aborts the rest of the cleanup.
CancelProducer(p) ==
    IF p.pc \in {"wait", "put", "fallback"} THEN [p EXCEPT !.pc = "cl_grace", !.chunk = <<>>]
    ELSE IF p.pc \in {"cl_grace", "cl_tail", "cl_remove", "cl_pop"} THEN [p EXCEPT !.pc = "done"]
    ELSE p

\* The pacer catches CancelledError and returns (lines 718-719).
CancelPacer(p) == IF p.pc = "unborn" THEN p ELSE [pc |-> "done", pending |-> <<>>]

\* Lines 2001-2028 up to the grace sleep of _cleanup_stream.
StopCall(k) ==
    /\ stopper[k].pc = "idle"
    /\ k <= budget.stops
    /\ \A j \in Stops : j < k => stopper[j].pc # "idle"
    /\ IF ~Active
       THEN /\ stopper' = [stopper EXCEPT ![k].pc = "done", ![k].ret = "False"]
            /\ UNCHANGED <<producer, pacer, keepalive, keepalive_tasks>>
       ELSE LET sid == active_streams.stream_id
            IN  /\ producer' = [producer EXCEPT ![sid] = CancelProducer(@)]
                /\ pacer' = [pacer EXCEPT ![sid] = CancelPacer(@)]
                /\ keepalive' = IF keepalive_tasks = 0 THEN keepalive
                                ELSE [keepalive EXCEPT ![keepalive_tasks] = "done"]
                /\ keepalive_tasks' = 0
                /\ stopper' = [stopper EXCEPT ![k].pc = "cl_grace", ![k].sid = sid]
    /\ UNCHANGED <<audio_transport, session, gating_token, active_streams, jitter_buffers,
                   queues, frame_remainders, startup_ready, last_segment_end, starter,
                   txlog, endlog, history,
                   offered, faults, budget, beyond_playback>>

\* Line 2028: stop's _cleanup_stream(call_id, stream_id).
StopCleanupFlush(k, ok) ==
    /\ stopper[k].pc = "cl_grace"
    /\ CleanupFlush(stopper[k].sid, ok)
    /\ stopper' = [stopper EXCEPT ![k].pc = AfterFlush]
    /\ UNCHANGED <<audio_transport, session, jitter_buffers, queues,
                   frame_remainders, startup_ready, last_segment_end, keepalive_tasks,
                   starter, producer, pacer, keepalive, endlog, history,
                   offered, budget, beyond_playback>>

StopCleanupClear(k) ==
    /\ stopper[k].pc = "cl_tail"
    /\ CleanupClear(stopper[k].sid)
    /\ stopper' = [stopper EXCEPT ![k].pc = "cl_remove"]
    /\ UNCHANGED <<audio_transport, session, active_streams, jitter_buffers, queues,
                   frame_remainders, startup_ready, last_segment_end, keepalive_tasks,
                   starter, producer, pacer, keepalive, txlog, endlog, history,
                   offered, faults, budget, beyond_playback>>

StopCleanupRemove(k) ==
    /\ stopper[k].pc = "cl_remove"
    /\ CleanupRemove(stopper[k].sid)
    /\ stopper' = [stopper EXCEPT ![k].pc = "cl_pop"]
    /\ UNCHANGED <<audio_transport, gating_token, queues, frame_remainders,
                   keepalive_tasks, starter, producer, pacer, keepalive, txlog,
                   history,
                   offered, faults, budget, beyond_playback>>

\* Lines 2316 and 2029-2030.
StopCleanupPop(k) ==
    /\ stopper[k].pc = "cl_pop"
    /\ CleanupPop
    /\ stopper' = [stopper EXCEPT ![k].pc = "done", ![k].ret = "True"]
    /\ UNCHANGED <<audio_transport, session, gating_token, active_streams, jitter_buffers,
                   queues, startup_ready, last_segment_end, keepalive_tasks, starter,
                   producer, pacer, keepalive, txlog, endlog, history,
                   offered, faults, budget, beyond_playback>>

(* ---------------------------- _keepalive_loop -------------------------- *)
\* Lines 1940-1958: one wake-up of the keepalive sleep.  Whether the time
\* since the last chunk exceeds connection_timeout_ms is the clock's choice.
KeepaliveTick(s, timed_out) ==
    /\ keepalive[s] = "sleep"
    /\ IF ~Active
       THEN /\ ~timed_out
            /\ keepalive' = [keepalive EXCEPT ![s] = "done"]
            /\ UNCHANGED faults
       ELSE /\ Env(~timed_out)
            /\ keepalive' = [keepalive EXCEPT ![s] = IF timed_out THEN "timedout" ELSE "sleep"]
    /\ UNCHANGED <<audio_transport, session, gating_token, active_streams, jitter_buffers,
                   queues, frame_remainders, startup_ready, last_segment_end,
                   keepalive_tasks, starter, producer, pacer, stopper, txlog, endlog,
                   history,
                   offered, budget, beyond_playback>>

\* Lines 1960-1978.
KeepaliveTimeout(s) ==
    /\ keepalive[s] = "timedout"
    /\ active_streams' = IF Active THEN [active_streams EXCEPT !.end_reason = "keepalive-timeout"]
                         ELSE active_streams
    /\ session' = [session EXCEPT !.last_streaming_error = "keepalive-timeout>"]
    /\ keepalive' = [keepalive EXCEPT ![s] = "fallback"]
    /\ history' = IF Active
                  THEN history \cup {[ev |-> "keepalive-timeout", sid |-> active_streams.stream_id]}
                  ELSE history
    /\ UNCHANGED <<audio_transport, gating_token, jitter_buffers, queues, frame_remainders,
                   startup_ready, last_segment_end, keepalive_tasks, starter, producer,
                   pacer, stopper, txlog, endlog,
                   offered, faults, budget, beyond_playback>>

\* Lines 1979-1980.
KeepaliveFallback(s) ==
    /\ keepalive[s] = "fallback"
    /\ queues' = DrainedQueues
    /\ active_streams' = DrainedInfo(active_streams)
    /\ keepalive' = [keepalive EXCEPT ![s] = "done"]
    /\ UNCHANGED <<audio_transport, session, gating_token, jitter_buffers,
                   frame_remainders, startup_ready, last_segment_end, keepalive_tasks,
                   starter, producer, pacer, stopper, txlog, endlog, history,
                   offered, faults, budget, beyond_playback>>

(* ------------------- _pacer_loop / _process_jitter_buffer -------------- *)
\* Lines 769-777: the rebuild wait is entered only on a true empty estimate.
RebuildNeeded(q, remainder, ready) ==
    LET available_now == _estimate_available_frames(q, remainder)
    IN  /\ _get_low_watermark_frames # 0
        /\ available_now <= _get_low_watermark_frames
        /\ ready
        /\ available_now = 0

\* Lines 767-869 between two suspension points: chunks are taken from the
\* queue; on AudioSocket a chunk that does not complete a frame is saved
\* with the remainder (line 869) and the loop goes on.  The result says
\* what the pacer does next: "send" a frame of `pending`, wait in "rebuild",
\* or return because the queue is "empty".
RECURSIVE Collect(_, _, _, _)
Collect(q, remainder, ready, skip_check) ==
    IF q = <<>>
    THEN [act |-> "empty", q |-> q, rem |-> remainder, pending |-> <<>>]
    ELSE IF ~skip_check /\ RebuildNeeded(q, remainder, ready)
    THEN [act |-> "rebuild", q |-> q, rem |-> remainder, pending |-> <<>>]
    ELSE IF audio_transport = "audiosocket"
    THEN IF Len(remainder \o Head(q)) < FrameSize
         THEN Collect(Tail(q), remainder \o Head(q), ready, FALSE)
         ELSE [act |-> "send", q |-> Tail(q), rem |-> remainder,
               pending |-> remainder \o Head(q)]
    ELSE [act |-> "send", q |-> Tail(q), rem |-> remainder, pending |-> Head(q)]

\* The frame the next send carries and what stays pending after it: one
\* frame_size frame on AudioSocket (line 847), the whole chunk on RTP (894).
FrameOf(pending) ==
    IF audio_transport = "audiosocket" THEN SubSeq(pending, 1, FrameSize) ELSE pending

RestOf(pending) ==
    IF audio_transport = "audiosocket" THEN SubSeq(pending, FrameSize + 1, Len(pending))
    ELSE <<>>

\* Bookkeeping of a successful frame send: tx_bytes in _send_audio_chunk,
\* then lines 858-864 (AudioSocket) or 904 (RTP).
InfoAfterFrame(info, n) ==
    IF info.stream_id = 0 THEN info
    ELSE [info EXCEPT !.tx_bytes = @ + n,
                      !.buffered_bytes = Max(0, @ - n),
                      !.frames_sent = @ + (IF audio_transport = "audiosocket" THEN 1 ELSE 0)]

\* One send of the pacer of stream s (lines 849-866 / 894-904 and, on a
\* failure, lines 706-709 up to the upsert of _record_fallback).
PacerSend(s, pending, ok, hist) ==
    IF ok
    THEN /\ UNCHANGED faults
         /\ txlog' = Append(txlog, [sid |-> s, by |-> "pacer", kind |-> "audio",
                                    data |-> FrameOf(pending)])
         /\ active_streams' = InfoAfterFrame(active_streams, Len(FrameOf(pending)))
         /\ pacer' = [pacer EXCEPT ![s] = [pc |-> "frames", pending |-> RestOf(pending)]]
         /\ history' = hist
         /\ UNCHANGED session
    ELSE /\ Env(FALSE)
         /\ history' = hist \cup {[ev |-> "send-failed", sid |-> s]}
         /\ session' = _record_fallback(session, "transport-failure")
         /\ pacer' = [pacer EXCEPT ![s] = [pc |-> "failed", pending |-> <<>>]]
         /\ UNCHANGED <<txlog, active_streams>>

\* The `while not jitter_buffer.empty()` loop from its head to the next
\* suspension point.
PacerLoop(s, remainder, ready, skip_check, ok, hist) ==
    LET c == Collect(queues[s], remainder, ready, skip_check)
    IN  /\ queues' = [queues EXCEPT ![s] = c.q]
        /\ frame_remainders' = c.rem
        /\ IF c.act = "send" THEN PacerSend(s, c.pending, ok, hist)
           ELSE /\ pacer' = [pacer EXCEPT ![s] =
                                [pc |-> IF c.act = "rebuild" THEN "rebuild" ELSE "top",
                                 pending |-> <<>>]]
                /\ ok
                /\ history' = hist
                /\ UNCHANGED <<txlog, active_streams, session, faults>>

\* Lines 703-705 and 744-767: the pacer wakes up, leaves if the call has no
\* entry, holds while the stream is not warmed up, else enters the loop.
PacerTop(s, ok) ==
    /\ pacer[s].pc = "top"
    /\ IF ~Active
       THEN /\ ok
            /\ pacer' = [pacer EXCEPT ![s].pc = "done"]
            /\ UNCHANGED <<queues, frame_remainders, startup_ready, txlog,
                           active_streams, session, history, faults>>
       ELSE IF /\ ~startup_ready
               /\ _estimate_available_frames(queues[s], frame_remainders)
                      < active_streams.min_start_chunks
       THEN /\ ok
            /\ UNCHANGED <<pacer, queues, frame_remainders, startup_ready, txlog,
                           active_streams, session, history, faults>>
       ELSE /\ startup_ready' = TRUE
            /\ PacerLoop(s, frame_remainders, TRUE, FALSE, ok,
                         IF startup_ready THEN history
                         ELSE history \cup {[ev |-> "warmed", sid |-> active_streams.stream_id]})
    /\ UNCHANGED <<audio_transport, gating_token, jitter_buffers, last_segment_end,
                   keepalive_tasks, starter, producer, keepalive, stopper, endlog,
                   offered, budget, beyond_playback>>

\* Lines 846-891 after the pacing sleep that follows a frame: the next frame
\* of the chunk, or the remainder is saved and, with nothing left at all, a
\* filler frame is sent; otherwise the loop goes on.
PacerFrames(s, ok) ==
    /\ pacer[s].pc = "frames"
    /\ IF audio_transport = "audiosocket" /\ Len(pacer[s].pending) >= FrameSize
       THEN /\ PacerSend(s, pacer[s].pending, ok, history)
            /\ UNCHANGED <<queues, frame_remainders>>
       ELSE IF audio_transport = "audiosocket" /\ pacer[s].pending = <<>> /\ queues[s] = <<>>
       THEN /\ Env(ok)
            /\ frame_remainders' = <<>>
            /\ txlog' = IF ok
                        THEN Append(txlog, [sid |-> s, by |-> "pacer", kind |-> "filler",
                                            data |-> [k \in 1..FrameSize |-> 0]])
                        ELSE txlog
            /\ active_streams' =
                  IF ok /\ Active
                  THEN [active_streams EXCEPT !.tx_bytes = @ + FrameSize,
                                              !.frames_sent = @ + 1,
                                              !.underflow_events = @ + 1]
                  ELSE active_streams
            /\ pacer' = [pacer EXCEPT ![s] = [pc |-> "resume", pending |-> <<>>]]
            /\ UNCHANGED <<queues, session, history>>
       ELSE PacerLoop(s, IF audio_transport = "audiosocket" THEN pacer[s].pending
                         ELSE frame_remainders,
                      startup_ready, FALSE, ok, history)
    /\ UNCHANGED <<audio_transport, gating_token, jitter_buffers, startup_ready,
                   last_segment_end, keepalive_tasks, starter, producer, keepalive,
                   stopper, endlog,
                   offered, budget, beyond_playback>>

\* Line 889 and back to the loop head (line 767).
PacerResume(s, ok) ==
    /\ pacer[s].pc = "resume"
    /\ PacerLoop(s, frame_remainders, startup_ready, FALSE, ok, history)
    /\ UNCHANGED <<audio_transport, gating_token, jitter_buffers, startup_ready,
                   last_segment_end, keepalive_tasks, starter, producer, keepalive,
                   stopper, endlog,
                   offered, budget, beyond_playback>>

\* Lines 798-827: a wake-up in the rebuild wait.  The wait ends when enough
\* frames are buffered or the clock says max_wait has passed; then the pacer
\* returns if the queue is empty and else takes the next chunk.
PacerRebuild(s, waited_out, ok) ==
    /\ pacer[s].pc = "rebuild"
    /\ IF /\ ~waited_out
          /\ _estimate_available_frames(queues[s], frame_remainders)
                < Max(_get_low_watermark_frames + 1,
                      IF Active THEN active_streams.min_start_chunks ELSE BaseMinStartChunks)
       THEN /\ ok
            /\ UNCHANGED <<pacer, queues, frame_remainders, txlog, active_streams,
                           session, history, faults>>
       ELSE PacerLoop(s, frame_remainders, startup_ready, TRUE, ok, history)
    /\ UNCHANGED <<audio_transport, gating_token, jitter_buffers, startup_ready,
                   last_segment_end, keepalive_tasks, starter, producer, keepalive,
                   stopper, endlog,
                   offered, budget, beyond_playback>>

\* Lines 710-715: the fallback after a failed send, then the pacer ends.
PacerFailed(s) ==
    /\ pacer[s].pc = "failed"
    /\ queues' = DrainedQueues
    /\ active_streams' =
          IF Active THEN [DrainedInfo(active_streams) EXCEPT !.end_reason = "transport-failure"]
          ELSE active_streams
    /\ pacer' = [pacer EXCEPT ![s].pc = "done"]
    /\ UNCHANGED <<audio_transport, session, gating_token, jitter_buffers,
                   frame_remainders, startup_ready, last_segment_end, keepalive_tasks,
                   starter, producer, keepalive, stopper, txlog, endlog, history,
                   offered, faults, budget, beyond_playback>>

(* ======================================================================= *)
(* Part 2: RTPServer (src/rtp_server.py).  A session is one call's UDP      *)
(* socket with its receive task.  A step is one call of a public method or  *)
(* one iteration of a session's receive loop.  An address stands for a      *)
(* (host, port) pair; SSRCs are SsrcWidth bits wide.                        *)
(* ======================================================================= *)
MaxCalls == 2
MaxPorts == 2
MaxAddrs == 2
MaxRtpOps == 6
\* Bits of an SSRC.  The code's SSRC has 32 bits (mask 0xFFFFFFFF); the
\* model keeps the masking and the exclusive-or and scales the width down.
SsrcWidth == 2

Calls == 1..MaxCalls
port_range == 1..MaxPorts
Addrs == 1..MaxAddrs
SsrcMask == 2 ^ SsrcWidth - 1
Ssrcs == 0..SsrcMask
\* Python's None for an SSRC, an address or a port.
NoSsrc == -1
NoAddr == 0
NoPort == 0

\* a ^ b on w-bit operands.
RECURSIVE BitXor(_, _, _)
BitXor(a, b, w) ==
    IF w = 0 THEN 0
    ELSE (((a % 2) + (b % 2)) % 2) + 2 * BitXor(a \div 2, b \div 2, w - 1)

\* a & b on w-bit operands.
RECURSIVE BitAnd(_, _, _)
BitAnd(a, b, w) ==
    IF w = 0 THEN 0
    ELSE ((a % 2) * (b % 2)) + 2 * BitAnd(a \div 2, b \div 2, w - 1)

\* Datagrams a session's socket can deliver: shorter than the RTP header,
\* with a version other than 2, or an RTP v2 packet; the SSRC is bytes 8..12.
Packets == [kind : {"short", "badversion", "rtp"}, ssrc : Ssrcs, addr : Addrs]

\* The RTPSession dataclass; local_port = NoPort stands for "no session".
NoSession ==
    [local_port |-> NoPort, remote |-> NoAddr, ssrc |-> NoSsrc, outbound_ssrc |-> NoSsrc,
     echo_packets_filtered |-> 0, frames_received |-> 0, socket_open |-> FALSE]

NewSession(port) ==
    [local_port |-> port, remote |-> NoAddr, ssrc |-> NoSsrc, outbound_ssrc |-> NoSsrc,
     echo_packets_filtered |-> 0, frames_received |-> 0, socket_open |-> TRUE]

HasSession(c) == sessions[c].local_port # NoPort

NoEvent == [n |-> 0, op |-> "none", call |-> 0, kind |-> "none", ssrc |-> NoSsrc,
            ret |-> "none"]

Event(op, c, kind, ssrc, ret) ==
    [n |-> rtp_event.n + 1, op |-> op, call |-> c, kind |-> kind, ssrc |-> ssrc, ret |-> ret]

\* RTPServer.__init__ (lines 62-98).
RtpConstructed(lock, allowed) ==
    /\ running = FALSE
    /\ lock_remote_endpoint = lock
    /\ allowed_remote_hosts = allowed
    /\ sessions = [c \in Calls |-> NoSession]
    /\ port_allocation = [p \in port_range |-> 0]
    /\ ssrc_to_call_id = [x \in Ssrcs |-> 0]
    /\ receiver = [c \in Calls |-> "none"]
    /\ delivered = [c \in Calls |-> 0]
    /\ rtp_event = NoEvent

\* allowed_remote_hosts: None (no restriction) or a set of hosts.
HostPolicies == {[restricted |-> FALSE, hosts |-> {}], [restricted |-> TRUE, hosts |-> {1}]}

HostAllowed(a) == ~allowed_remote_hosts.restricted \/ a \in allowed_remote_hosts.hosts

RtpBudget == rtp_event.n < MaxRtpOps

\* start (lines 113-118).
RtpStart ==
    /\ RtpBudget
    /\ running' = TRUE
    /\ rtp_event' = Event("start", 0, "none", NoSsrc, "none")
    /\ UNCHANGED <<lock_remote_endpoint, allowed_remote_hosts, sessions, port_allocation,
                   ssrc_to_call_id, receiver, delivered, beyond_rtp>>

\* _reserve_port (lines 502-508): the lowest free port of the range.
FreePorts == {p \in port_range : port_allocation[p] = 0}
_reserve_port == IF FreePorts = {} THEN NoPort
                 ELSE CHOOSE p \in FreePorts : \A q \in FreePorts : p <= q

\* allocate_session (lines 157-189).
AllocateSession(c) ==
    /\ RtpBudget
    /\ IF ~running
       THEN /\ rtp_event' = Event("allocate", c, "none", NoSsrc, "raised")
            /\ UNCHANGED <<sessions, port_allocation, receiver>>
       ELSE IF HasSession(c)
       THEN /\ rtp_event' = Event("allocate", c, "existing", sessions[c].local_port, "port")
            /\ UNCHANGED <<sessions, port_allocation, receiver>>
       ELSE IF _reserve_port = NoPort
       THEN /\ rtp_event' = Event("allocate", c, "none", NoSsrc, "raised")
            /\ UNCHANGED <<sessions, port_allocation, receiver>>
       ELSE /\ port_allocation' = [port_allocation EXCEPT ![_reserve_port] = c]
            /\ sessions' = [sessions EXCEPT ![c] = NewSession(_reserve_port)]
            /\ receiver' = [receiver EXCEPT ![c] = "running"]
            /\ rtp_event' = Event("allocate", c, "new", _reserve_port, "port")
    /\ UNCHANGED <<running, lock_remote_endpoint, allowed_remote_hosts, ssrc_to_call_id,
                   delivered, beyond_rtp>>

\* _cleanup_session (lines 513-533) on the ports and the SSRC map: the
\* session's port is released and its inbound SSRC unmapped.
ReleasedPorts(cs) ==
    [p \in port_range |->
        IF \E c \in cs : sessions[c].local_port = p THEN 0 ELSE port_allocation[p]]

UnmappedSsrcs(cs) ==
    [x \in Ssrcs |->
        IF \E c \in cs : sessions[c].ssrc = x THEN 0 ELSE ssrc_to_call_id[x]]

\* cleanup_session (lines 191-197): the session is popped, its receive task
\* cancelled, its socket closed and its port released.
CleanupSession(c) ==
    /\ RtpBudget
    /\ rtp_event' = Event("cleanup", c, "none", NoSsrc, "none")
    /\ IF ~HasSession(c)
       THEN UNCHANGED <<sessions, port_allocation, ssrc_to_call_id, receiver>>
       ELSE /\ sessions' = [sessions EXCEPT ![c] = NoSession]
            /\ receiver' = [receiver EXCEPT ![c] = "none"]
            /\ port_allocation' = ReleasedPorts({c})
            /\ ssrc_to_call_id' = UnmappedSsrcs({c})
    /\ UNCHANGED <<running, lock_remote_endpoint, allowed_remote_hosts, delivered,
                   beyond_rtp>>

\* stop (lines 128-152): every receive task is cancelled, every session
\* cleaned up and every map cleared.
RtpStop ==
    /\ RtpBudget
    /\ rtp_event' = Event("stop", 0, "none", NoSsrc, "none")
    /\ IF ~running
       THEN UNCHANGED <<running, sessions, port_allocation, ssrc_to_call_id, receiver>>
       ELSE /\ running' = FALSE
            /\ sessions' = [c \in Calls |-> NoSession]
            /\ receiver' = [c \in Calls |-> "none"]
            /\ port_allocation' = [p \in port_range |-> 0]
            /\ ssrc_to_call_id' = [x \in Ssrcs |-> 0]
    /\ UNCHANGED <<lock_remote_endpoint, allowed_remote_hosts, delivered, beyond_rtp>>

\* map_ssrc_to_call_id (lines 200-206).
MapSsrcToCallId(ssrc, c) ==
    /\ RtpBudget
    /\ ssrc_to_call_id' = [ssrc_to_call_id EXCEPT ![ssrc] = c]
    /\ sessions' = IF HasSession(c) THEN [sessions EXCEPT ![c].ssrc = ssrc] ELSE sessions
    /\ rtp_event' = Event("map", c, "none", ssrc, "none")
    /\ UNCHANGED <<running, lock_remote_endpoint, allowed_remote_hosts, port_allocation,
                   receiver, delivered, beyond_rtp>>

\* The outbound SSRC send_audio derives (lines 224-232): the inbound SSRC
\* with every bit flipped, or a random one while the inbound SSRC is unknown.
OutboundSsrcs(ssrc) ==
    IF ssrc # NoSsrc THEN {BitAnd(BitXor(ssrc, SsrcMask, SsrcWidth), SsrcMask, SsrcWidth)}
    ELSE Ssrcs

\* send_audio (lines 211-244): an empty chunk returns True; without a
\* session or a remote endpoint the call returns False; otherwise the
\* outbound SSRC is established and the call returns False at line 244.
\* `sock` is what the socket would do with the packet.
SendAudio(c, empty, sock) ==
    /\ RtpBudget
    /\ IF empty
       THEN /\ rtp_event' = Event("send", c, sock, NoSsrc, "True")
            /\ UNCHANGED sessions
       ELSE IF ~HasSession(c) \/ sessions[c].remote = NoAddr
       THEN /\ rtp_event' = Event("send", c, sock, NoSsrc, "False")
            /\ UNCHANGED sessions
       ELSE \E out \in (IF sessions[c].outbound_ssrc # NoSsrc
                        THEN {sessions[c].outbound_ssrc}
                        ELSE OutboundSsrcs(sessions[c].ssrc)) :
            /\ sessions' = [sessions EXCEPT ![c].outbound_ssrc = out]
            /\ rtp_event' = Event("send", c, sock, out, "False")
    /\ UNCHANGED <<running, lock_remote_endpoint, allowed_remote_hosts, port_allocation,
                   ssrc_to_call_id, receiver, delivered, beyond_rtp>>

\* The remote endpoint after a packet from addr (lines 338-375), or NoAddr
\* with drop = TRUE when the packet is rejected.
Endpoint(sess, addr) ==
    IF sess.remote = NoAddr
    THEN IF HostAllowed(addr) THEN [drop |-> FALSE, remote |-> addr]
         ELSE [drop |-> TRUE, remote |-> sess.remote]
    ELSE IF addr # sess.remote
    THEN IF ~HostAllowed(addr) \/ lock_remote_endpoint
         THEN [drop |-> TRUE, remote |-> sess.remote]
         ELSE [drop |-> FALSE, remote |-> addr]
    ELSE [drop |-> FALSE, remote |-> sess.remote]

\* An echo test against the caller's SSRC instead of the server's own.
IsEcho_InboundSsrc(sess, pkt) == sess.ssrc # NoSsrc /\ pkt.ssrc = sess.ssrc

\* The echo test (line 328): the packet carries the session's outbound SSRC.
IsEcho(sess, pkt) == sess.outbound_ssrc # NoSsrc /\ pkt.ssrc = sess.outbound_ssrc

\* One iteration of _rtp_receiver_loop with a datagram (lines 303-399) and
\* _handle_inbound_packet (lines 403-462).
Receive(c, pkt) ==
    /\ RtpBudget
    /\ receiver[c] = "running"
    /\ running /\ HasSession(c)
    /\ rtp_event' = Event("recv", c, pkt.kind, pkt.ssrc, "none")
    /\ LET sess == sessions[c]
           ep == Endpoint(sess, pkt.addr)
       IN  IF pkt.kind # "rtp"
           THEN UNCHANGED <<sessions, ssrc_to_call_id, delivered>>
           ELSE IF IsEcho(sess, pkt)
           THEN /\ sessions' = [sessions EXCEPT ![c].echo_packets_filtered = @ + 1]
                /\ UNCHANGED <<ssrc_to_call_id, delivered>>
           ELSE IF ep.drop
           THEN UNCHANGED <<sessions, ssrc_to_call_id, delivered>>
           ELSE /\ sessions' = [sessions EXCEPT
                                  ![c].remote = ep.remote,
                                  ![c].ssrc = IF sess.ssrc = NoSsrc THEN pkt.ssrc ELSE sess.ssrc,
                                  ![c].frames_received = @ + 1]
                /\ ssrc_to_call_id' = IF sess.ssrc = NoSsrc
                                      THEN [ssrc_to_call_id EXCEPT ![pkt.ssrc] = c]
                                      ELSE ssrc_to_call_id
                /\ delivered' = [delivered EXCEPT ![c] = @ + 1]
    /\ UNCHANGED <<running, lock_remote_endpoint, allowed_remote_hosts, port_allocation,
                   receiver, beyond_rtp>>

\* sock_recvfrom raises (lines 306-311): the loop breaks and the task ends.
RecvError(c) ==
    /\ RtpBudget
    /\ receiver[c] = "running"
    /\ running /\ HasSession(c)
    /\ receiver' = [receiver EXCEPT ![c] = "failed"]
    /\ rtp_event' = Event("recv-error", c, "none", NoSsrc, "none")
    /\ UNCHANGED <<running, lock_remote_endpoint, allowed_remote_hosts, sessions,
                   port_allocation, ssrc_to_call_id, delivered, beyond_rtp>>

(* ======================================================================= *)
(* Part 4: DeepgramProvider (src/providers/deepgram.py)                     *)
(* ======================================================================= *)
\* One provider object serving MaxSessions sessions one after the other: a
\* session starts once the timers of the earlier ones have run out.
\* A step is the code between two suspension points.  The connection of
\* session s is dg_ws[s]; self.websocket is the number of the session whose
\* connection start_session stored last (0 for None).  on_event is set.
MaxSessions == 2
MaxServerMsgs == 3
MaxCallerFrames == 12
UnitsPerFrame == 2

\* The runs explored: one session with a long run of caller audio, or
\* several sessions with more server frames and no caller audio.
DgScenarios ==
    { [sessions |-> 1, msgs |-> 1, frames |-> MaxCallerFrames],
      [sessions |-> MaxSessions, msgs |-> MaxServerMsgs, frames |-> 0] }

DgSessions == 1..MaxSessions
ServerJson == {"Welcome", "SettingsApplied", "ConversationText"}
InputEncodings == {"ulaw", "linear16"}
\* send_audio's cap on the frames it holds (deepgram.py 456, 477).
PrestreamLimit == 10

NoTasks == [recv |-> "none", settings |-> FALSE, fallback |-> "none", quiet |-> "none"]

\* __init__ (deepgram.py 84-125).
DeepgramConstructed(encoding, scenario) ==
    /\ dg = [websocket |-> 0, input_encoding |-> encoding, configure |-> "idle",
             _ready_to_stream |-> FALSE, _in_audio_burst |-> FALSE,
             _greeting_injections |-> 0, _prestream_queue |-> <<>>, _pcm16_accum |-> 0,
             _ack_event |-> "none", _closing |-> FALSE, _closed |-> FALSE,
             framed |-> 0, msgs |-> 0, budget |-> scenario]
    /\ dg_ws = [s \in DgSessions |-> "none"]
    /\ dg_tasks = [s \in DgSessions |-> NoTasks]
    /\ dg_events = [s \in DgSessions |-> <<>>]
    /\ dg_sent = [s \in DgSessions |-> <<>>]

\* websocket.closed of the connection self.websocket points at.
WebsocketOpen == dg.websocket # 0 /\ dg_ws[dg.websocket] = "open"

\* websocket.send on the connection self.websocket points at, and on_event
\* called by the receive loop of session s.
Sent(kind, frame) == [kind |-> kind, frame |-> frame]
SendOn(msgs) == [dg_sent EXCEPT ![dg.websocket] = @ \o msgs]
EmitBy(s, events) == [dg_events EXCEPT ![s] = @ \o events]

\* start_session up to the send of Settings (deepgram.py 175-201, 210-250):
\* the connection is made and stored, the ACK gate is created and the
\* receive loop of this connection is started.
StartSession ==
    /\ dg.configure \in {"idle", "done", "failed"}
    /\ dg.websocket < dg.budget.sessions
    /\ \A s \in DgSessions : dg_tasks[s].fallback # "pending" /\ dg_tasks[s].quiet # "pending"
    /\ LET s == dg.websocket + 1
       IN  /\ dg' = [dg EXCEPT !.websocket = s, !._ack_event = "unset",
                               !.configure = "settings"]
           /\ dg_ws' = [dg_ws EXCEPT ![s] = "open"]
           /\ dg_tasks' = [dg_tasks EXCEPT ![s].recv = "running"]
    /\ UNCHANGED <<dg_events, dg_sent, beyond_deepgram>>

\* _inject_greeting_immediate (deepgram.py 277-288): created by
\* _configure_agent and run at its next suspension.
InjectsImmediately == WebsocketOpen /\ dg._greeting_injections < 1

\* _configure_agent from the send of Settings to the wait for the ACK
\* (deepgram.py 252-296); a closed connection makes the send raise, which
\* start_session re-raises (204-208).
ConfigureSendSettings ==
    /\ dg.configure = "settings"
    /\ IF WebsocketOpen
       THEN /\ dg' = [dg EXCEPT !.configure = "wait_ack",
                         !._greeting_injections =
                             IF InjectsImmediately THEN @ + 1 ELSE @]
            /\ dg_sent' = SendOn(<<Sent("settings", 0)>>
                                 \o (IF InjectsImmediately THEN <<Sent("inject", 0)>>
                                                            ELSE <<>>))
            /\ dg_tasks' = [dg_tasks EXCEPT ![dg.websocket].settings = TRUE,
                                            ![dg.websocket].fallback = "pending"]
       ELSE /\ dg' = [dg EXCEPT !.configure = "failed"]
            /\ UNCHANGED <<dg_sent, dg_tasks>>
    /\ UNCHANGED <<dg_ws, dg_events, beyond_deepgram>>

\* _fallback_ready, 300 ms after Settings (deepgram.py 260-274).
FallbackReady(s) ==
    /\ dg_tasks[s].fallback = "pending"
    /\ dg_tasks' = [dg_tasks EXCEPT ![s].fallback = "done"]
    /\ dg' = [dg EXCEPT !._ready_to_stream = @ \/ WebsocketOpen]
    /\ UNCHANGED <<dg_ws, dg_events, dg_sent, beyond_deepgram>>

\* The end of _configure_agent (deepgram.py 290-312): the ACK arrived
\* within a second (acked) or the wait timed out, which is after the
\* 300 ms of _fallback_ready; the quiet-window injection is scheduled
\* either way.
ConfigureDone(acked) ==
    /\ dg.configure = "wait_ack"
    /\ acked <=> dg._ack_event = "set"
    /\ acked \/ dg_tasks[dg.websocket].fallback = "done"
    /\ dg' = [dg EXCEPT !.configure = "done",
                        !._ready_to_stream = @ \/ acked]
    /\ dg_tasks' = [dg_tasks EXCEPT ![dg.websocket].quiet = "pending"]
    /\ UNCHANGED <<dg_ws, dg_events, dg_sent, beyond_deepgram>>

\* _inject_greeting_if_quiet, 1.5 s later (deepgram.py 299-311).
InjectsIfQuiet == WebsocketOpen /\ ~dg._in_audio_burst /\ dg._greeting_injections < 2

InjectGreetingIfQuiet(s) ==
    /\ dg_tasks[s].quiet = "pending"
    /\ dg_tasks' = [dg_tasks EXCEPT ![s].quiet = "done"]
    /\ IF InjectsIfQuiet
       THEN /\ dg' = [dg EXCEPT !._greeting_injections = @ + 1]
            /\ dg_sent' = SendOn(<<Sent("inject", 0)>>)
       ELSE UNCHANGED <<dg, dg_sent>>
    /\ UNCHANGED <<dg_ws, dg_events, beyond_deepgram>>

\* The burst boundary of _receive_loop (deepgram.py 663-672): in a burst,
\* AgentAudioDone is handed to on_event and the loop waits for it;
\* otherwise the control event itself is handed over.
BurstBoundary(s) ==
    IF dg._in_audio_burst
    THEN [recv |-> "after_done", events |-> <<"AgentAudioDone">>]
    ELSE [recv |-> "running", events |-> <<"control">>]

\* The post-ACK injection test of _receive_loop (deepgram.py 650-653).
InjectsAfterAck(et) ==
    /\ et \in {"SettingsApplied", "Welcome"}
    /\ ~dg._in_audio_burst
    /\ dg._greeting_injections < 2
    /\ WebsocketOpen

\* _receive_loop of session s takes a JSON text frame of type et
\* (deepgram.py 569-662): readiness, the ACK gate, the post-ACK injection
\* and, unless the injection suspended the loop, the burst boundary.
RecvJson(s, et) ==
    /\ dg_tasks[s].recv = "running"
    /\ dg_ws[s] = "open"
    /\ dg.msgs < dg.budget.msgs
    /\ dg' = [dg EXCEPT !.msgs = @ + 1,
                        !._ready_to_stream = TRUE,
                        !._ack_event = IF @ = "unset" THEN "set" ELSE @,
                        !._greeting_injections = IF InjectsAfterAck(et) THEN @ + 1 ELSE @]
    /\ IF InjectsAfterAck(et)
       THEN /\ dg_sent' = SendOn(<<Sent("inject", 0)>>)
            /\ dg_tasks' = [dg_tasks EXCEPT ![s].recv = "boundary"]
            /\ UNCHANGED dg_events
       ELSE /\ dg_tasks' = [dg_tasks EXCEPT ![s].recv = BurstBoundary(s).recv]
            /\ dg_events' = EmitBy(s, BurstBoundary(s).events)
            /\ UNCHANGED dg_sent
    /\ UNCHANGED <<dg_ws, beyond_deepgram>>

\* _receive_loop resumes after the injection (deepgram.py 663-672).
RecvBoundary(s) ==
    /\ dg_tasks[s].recv = "boundary"
    /\ dg_tasks' = [dg_tasks EXCEPT ![s].recv = BurstBoundary(s).recv]
    /\ dg_events' = EmitBy(s, BurstBoundary(s).events)
    /\ UNCHANGED <<dg, dg_ws, dg_sent, beyond_deepgram>>

\* on_event(AgentAudioDone) has returned (deepgram.py 669-672).
RecvAfterDone(s) ==
    /\ dg_tasks[s].recv = "after_done"
    /\ dg' = [dg EXCEPT !._in_audio_burst = FALSE]
    /\ dg_events' = EmitBy(s, <<"control">>)
    /\ dg_tasks' = [dg_tasks EXCEPT ![s].recv = "running"]
    /\ UNCHANGED <<dg_ws, dg_sent, beyond_deepgram>>

\* A text frame that is not JSON (deepgram.py 673-674).
RecvInvalid(s) ==
    /\ dg_tasks[s].recv = "running"
    /\ dg_ws[s] = "open"
    /\ dg.msgs < dg.budget.msgs
    /\ dg' = [dg EXCEPT !.msgs = @ + 1]
    /\ UNCHANGED <<dg_ws, dg_tasks, dg_events, dg_sent, beyond_deepgram>>

\* A binary frame (deepgram.py 675-863).
RecvAudio(s) ==
    /\ dg_tasks[s].recv = "running"
    /\ dg_ws[s] = "open"
    /\ dg.msgs < dg.budget.msgs
    /\ dg' = [dg EXCEPT !.msgs = @ + 1, !._ready_to_stream = TRUE,
                        !._in_audio_burst = TRUE]
    /\ dg_events' = EmitBy(s, <<"AgentAudio">>)
    /\ UNCHANGED <<dg_ws, dg_tasks, dg_sent, beyond_deepgram>>

\* The server or the network ends the connection of session s.
ConnectionLost(s) ==
    /\ dg_ws[s] = "open"
    /\ dg_ws' = [dg_ws EXCEPT ![s] = "closed"]
    /\ UNCHANGED <<dg, dg_tasks, dg_events, dg_sent, beyond_deepgram>>

\* stop_session (deepgram.py 498-514).
StopSession ==
    /\ ~(dg._closed \/ dg._closing)
    /\ dg.websocket # 0
    /\ dg_ws' = [dg_ws EXCEPT ![dg.websocket] = "closed"]
    /\ dg' = [dg EXCEPT !._closed = TRUE]
    /\ UNCHANGED <<dg_tasks, dg_events, dg_sent, beyond_deepgram>>

\* _receive_loop of session s finds its connection closed and enters its
\* finally block (deepgram.py 864-881).
RecvClosed(s) ==
    /\ dg_tasks[s].recv = "running"
    /\ dg_ws[s] = "closed"
    /\ IF dg._in_audio_burst
       THEN /\ dg_events' = EmitBy(s, <<"AgentAudioDone">>)
            /\ dg_tasks' = [dg_tasks EXCEPT ![s].recv = "finally_done"]
            /\ UNCHANGED dg
       ELSE /\ dg_tasks' = [dg_tasks EXCEPT ![s].recv = "ended"]
            /\ dg' = [dg EXCEPT !._in_audio_burst = FALSE]
            /\ UNCHANGED dg_events
    /\ UNCHANGED <<dg_ws, dg_sent, beyond_deepgram>>

\* The last statement of the finally block (deepgram.py 881).
RecvFinally(s) ==
    /\ dg_tasks[s].recv = "finally_done"
    /\ dg' = [dg EXCEPT !._in_audio_burst = FALSE]
    /\ dg_tasks' = [dg_tasks EXCEPT ![s].recv = "ended"]
    /\ UNCHANGED <<dg_ws, dg_events, dg_sent, beyond_deepgram>>

\* The frames send_audio cuts from a chunk of `units` half frames: the
\* PCM16 path goes through _pcm16_accum (deepgram.py 441-450), the mu-law
\* path passes the chunk on as one frame (425-439, 472-476).
FramesCut(units) ==
    IF dg.input_encoding = "linear16"
    THEN (dg._pcm16_accum + units) \div UnitsPerFrame
    ELSE 1

AccumAfter(units) ==
    IF dg.input_encoding = "linear16"
    THEN (dg._pcm16_accum + units) % UnitsPerFrame
    ELSE dg._pcm16_accum

NewFrames(units) == [i \in 1..FramesCut(units) |-> dg.framed + i]

HeldLast10_Unbounded(frames) == dg._prestream_queue \o frames

\* The queue after appending frames one by one, dropping the oldest
\* beyond the limit (deepgram.py 454-457, 476-478).
HeldLast10(frames) ==
    LET all == dg._prestream_queue \o frames
    IN  IF Len(all) > PrestreamLimit
        THEN SubSeq(all, Len(all) - PrestreamLimit + 1, Len(all))
        ELSE all

Frames(seq) == [i \in 1..Len(seq) |-> Sent("frame", seq[i])]

\* send_audio (deepgram.py 326-496).  Not ready: the frames are held.
\* Ready: the held frames are flushed, then the new ones are sent; on a
\* closed connection the flush raises, the queue is cleared and the send
\* of the new frames raises as well.
SendCallerAudio(units) ==
    /\ dg.websocket # 0
    /\ dg.framed + FramesCut(units) <= dg.budget.frames
    /\ IF ~dg._ready_to_stream
       THEN /\ dg' = [dg EXCEPT !._prestream_queue = HeldLast10(NewFrames(units)),
                                !._pcm16_accum = AccumAfter(units),
                                !.framed = @ + FramesCut(units)]
            /\ UNCHANGED dg_sent
       ELSE /\ dg' = [dg EXCEPT !._prestream_queue = <<>>,
                                !._pcm16_accum = AccumAfter(units),
                                !.framed = @ + FramesCut(units)]
            /\ dg_sent' = IF WebsocketOpen
                          THEN SendOn(Frames(dg._prestream_queue) \o Frames(NewFrames(units)))
                          ELSE dg_sent
    /\ UNCHANGED <<dg_ws, dg_tasks, dg_events, beyond_deepgram>>

(* ======================================================================= *)
(* Part 5: PipelineOrchestrator (src/pipelines/orchestrator.py)             *)
(* ======================================================================= *)
\* A resolution is numbered by the order in which _build_resolution made
\* it; its three adapters are built fresh for it.  release_pipeline awaits
\* close_call and stop of each adapter, so releases interleave with
\* get_pipeline, with each other and with stop().
MaxResolutions == 3
OrchCalls == 1..2
PipelineNames == {"p1", "p2"}
PipelineConfigs == {<<>>, <<"p1">>, <<"p1", "p2">>, <<"p2", "p1">>}
RequestedPipelines == {"none", "p1", "p2", "ghost"}
NoResolution == [id |-> 0, call_id |-> 0, pipeline_name |-> "none"]
Adapters == <<"stt", "llm", "tts">>
CallOutcomes == {"returned", "NotImplementedError", "Exception"}
Released == 2 * Len(Adapters) + 1

\* __init__ (orchestrator.py 205-226).
OrchestratorConstructed(pipelines, active) ==
    /\ orch = [pipelines |-> pipelines, _active_pipeline_name |-> active,
               _enabled |-> pipelines # <<>>, _started |-> FALSE,
               _assignments |-> [c \in OrchCalls |-> NoResolution],
               built |-> 0, stopping |-> "idle", pending |-> <<>>, current |-> 0]
    /\ orch_release = [r \in 1..MaxResolutions |-> 0]
    /\ orch_log = [r \in 1..MaxResolutions |-> <<>>]
    /\ orch_event = [op |-> "none", call_id |-> 0, ret |-> NoResolution]

Configured(name) == \E i \in 1..Len(orch.pipelines) : orch.pipelines[i] = name

\* The pipeline get_pipeline selects (orchestrator.py 306-326): the
\* requested one, else the active one, else the first configured; a name
\* that is not configured falls back to the first one.
SelectedPipeline(pipeline_name) ==
    LET selected_name == IF pipeline_name # "none" THEN pipeline_name
                         ELSE orch._active_pipeline_name
    IN  IF orch.pipelines = <<>> THEN "none"
        ELSE IF selected_name = "none" \/ ~Configured(selected_name)
        THEN orch.pipelines[1]
        ELSE selected_name

\* start (orchestrator.py 236-280).
OrchStart ==
    /\ orch._enabled
    /\ ~orch._started
    /\ orch.stopping = "idle"
    /\ orch' = [orch EXCEPT !._started = TRUE]
    /\ orch_event' = [op |-> "start", call_id |-> 0, ret |-> NoResolution]
    /\ UNCHANGED <<orch_release, orch_log, beyond_orchestrator>>

\* What get_pipeline returns (orchestrator.py 292-330).
GetPipelineResult(c, pipeline_name) ==
    IF ~orch._enabled \/ ~orch._started THEN NoResolution
    ELSE IF orch._assignments[c] # NoResolution THEN orch._assignments[c]
    ELSE IF SelectedPipeline(pipeline_name) = "none" THEN NoResolution
    ELSE [id |-> orch.built + 1, call_id |-> c,
          pipeline_name |-> SelectedPipeline(pipeline_name)]

\* get_pipeline (orchestrator.py 292-330).
GetPipeline(c, pipeline_name) ==
    LET resolution == GetPipelineResult(c, pipeline_name)
    IN  /\ resolution.id <= MaxResolutions
        /\ orch' = IF resolution.id > orch.built
                   THEN [orch EXCEPT !._assignments[c] = resolution, !.built = resolution.id]
                   ELSE orch
        /\ orch_event' = [op |-> "get_pipeline", call_id |-> c, ret |-> resolution]
        /\ UNCHANGED <<orch_release, orch_log, beyond_orchestrator>>

\* release_pipeline up to its first await (orchestrator.py 332-335): the
\* assignment is popped; without one the call returns.
ReleasePipeline(c) ==
    /\ orch._assignments[c] # NoResolution
    /\ orch' = [orch EXCEPT !._assignments[c] = NoResolution]
    /\ orch_release' = [orch_release EXCEPT ![orch._assignments[c].id] = 1]
    /\ orch_event' = [op |-> "release_pipeline", call_id |-> c, ret |-> orch._assignments[c]]
    /\ UNCHANGED <<orch_log, beyond_orchestrator>>

\* The call _shutdown_component makes at position pos of a release
\* (orchestrator.py 337-338, 1046-1079): close_call, then stop, adapter by
\* adapter.
ShutdownCall(pos) ==
    [adapter |-> Adapters[(pos + 1) \div 2],
     method |-> IF pos % 2 = 1 THEN "close_call" ELSE "stop"]

\* One awaited call of a release; whatever it raises is logged and the
\* release goes on (orchestrator.py 1046-1079).
ShutdownStep(r, outcome) ==
    /\ orch_release[r] \in 1..(Released - 1)
    /\ outcome \in CallOutcomes
    /\ orch_log' = [orch_log EXCEPT ![r] = Append(@, ShutdownCall(orch_release[r]))]
    /\ orch_release' = [orch_release EXCEPT ![r] = @ + 1]
    /\ orch_event' = [op |-> "shutdown", call_id |-> 0, ret |-> NoResolution]
    /\ UNCHANGED <<orch, beyond_orchestrator>>

AssignedCalls == {c \in OrchCalls : orch._assignments[c] # NoResolution}

\* The keys of _assignments in insertion order (orchestrator.py 286).
RECURSIVE KeysInOrder(_)
KeysInOrder(calls) ==
    IF calls = {} THEN <<>>
    ELSE LET first == CHOOSE c \in calls :
                        \A d \in calls : orch._assignments[c].id <= orch._assignments[d].id
         IN  <<first>> \o KeysInOrder(calls \ {first})

\* The keys stop() still has to release: release_pipeline returns at once,
\* without suspending, for a key whose assignment is gone
\* (orchestrator.py 333-335).
StillAssigned(c) == orch._assignments[c] # NoResolution

KeysToRelease(keys) == SelectSeq(keys, StillAssigned)

\* stop() goes on to release the first of keys, or finishes when there is
\* none (orchestrator.py 286-290, 332-338).
StopProceeds(keys) ==
    IF keys = <<>>
    THEN /\ orch' = [orch EXCEPT !.stopping = "idle", !._started = FALSE,
                                 !.pending = <<>>, !.current = 0]
         /\ orch_event' = [op |-> "stopped", call_id |-> 0, ret |-> NoResolution]
         /\ UNCHANGED orch_release
    ELSE LET c == Head(keys)
             resolution == orch._assignments[c]
         IN  /\ orch' = [orch EXCEPT !.stopping = "releasing", !.pending = Tail(keys),
                                     !._assignments[c] = NoResolution,
                                     !.current = resolution.id]
             /\ orch_release' = [orch_release EXCEPT ![resolution.id] = 1]
             /\ orch_event' = [op |-> "release_pipeline", call_id |-> c,
                               ret |-> resolution]

\* stop up to its first suspension (orchestrator.py 282-290).
OrchStop ==
    /\ orch._started
    /\ orch.stopping = "idle"
    /\ StopProceeds(KeysInOrder(AssignedCalls))
    /\ UNCHANGED <<orch_log, beyond_orchestrator>>

\* The release stop() awaits has finished (orchestrator.py 287).
ReleaseAwaited == orch.current # 0 /\ orch_release[orch.current] = Released

\* stop() resumes and releases the next key (orchestrator.py 286-287).
OrchStopRelease ==
    /\ orch.stopping = "releasing"
    /\ ReleaseAwaited
    /\ KeysToRelease(orch.pending) # <<>>
    /\ StopProceeds(KeysToRelease(orch.pending))
    /\ UNCHANGED <<orch_log, beyond_orchestrator>>

\* stop() resumes and finishes (orchestrator.py 289-290).
OrchStopped ==
    /\ orch.stopping = "releasing"
    /\ ReleaseAwaited
    /\ KeysToRelease(orch.pending) = <<>>
    /\ StopProceeds(<<>>)
    /\ UNCHANGED <<orch_log, beyond_orchestrator>>

(* ======================================================================= *)
(* Part 3: tool calling (src/tools).  hangup_call's guardrails read the     *)
(* conversation; a text is the sequence of its characters.                  *)
(* ======================================================================= *)
MaxHistory == 2
MaxToolCalls == 2

Letters == {"a", "b", "c", "d", "e", "f", "g", "h", "i", "j", "k", "l", "m",
            "n", "o", "p", "q", "r", "s", "t", "u", "v", "w", "x", "y", "z"}
Digits == {"0", "1", "2", "3", "4", "5", "6", "7", "8", "9"}

\* str.lower on the characters the model's texts use.
LowerChar(c) == IF c = "B" THEN "b" ELSE IF c = "T" THEN "t" ELSE c
Lower(t) == [i \in 1..Len(t) |-> LowerChar(t[i])]

\* m in t (substring test).
Contains(t, m) ==
    \E i \in 1..(Len(t) - Len(m) + 1) : SubSeq(t, i, i + Len(m) - 1) = m

\* t.endswith(m).
EndsWith(t, m) == Len(t) >= Len(m) /\ SubSeq(t, Len(t) - Len(m) + 1, Len(t)) = m

\* str.split(): the maximal runs of non-blank characters.
RECURSIVE Split(_, _)
Split(t, word) ==
    IF t = <<>> THEN (IF word = <<>> THEN <<>> ELSE <<word>>)
    ELSE IF Head(t) = " "
    THEN (IF word = <<>> THEN <<>> ELSE <<word>>) \o Split(Tail(t), <<>>)
    ELSE Split(Tail(t), Append(word, Head(t)))

\* " ".join(words).
RECURSIVE Join(_)
Join(words) ==
    IF words = <<>> THEN <<>>
    ELSE IF Len(words) = 1 THEN Head(words)
    ELSE Head(words) \o <<" ">> \o Join(Tail(words))

\* _norm (hangup.py 47-48): " ".join(text.strip().lower().split()).
_norm(text) == Join(Split(Lower(text), <<>>))

\* str(content).strip() is non-empty.
NonBlank(t) == \E i \in 1..Len(t) : t[i] # " "

_AFFIRMATIVE_MARKERS ==
    {<<"y", "e", "s">>,
     <<"y", "e", "a", "h">>,
     <<"y", "e", "p">>,
     <<"c", "o", "r", "r", "e", "c", "t">>,
     <<"t", "h", "a", "t", "'", "s", " ", "c", "o", "r", "r", "e", "c", "t">>,
     <<"t", "h", "a", "t", "s", " ", "c", "o", "r", "r", "e", "c", "t">>,
     <<"t", "h", "a", "t", "'", "s", " ", "r", "i", "g", "h", "t">>,
     <<"t", "h", "a", "t", "s", " ", "r", "i", "g", "h", "t">>,
     <<"r", "i", "g", "h", "t">>,
     <<"e", "x", "a", "c", "t", "l", "y">>,
     <<"a", "f", "f", "i", "r", "m", "a", "t", "i", "v", "e">>}

_END_CALL_MARKERS ==
    {<<"b", "y", "e">>,
     <<"g", "o", "o", "d", "b", "y", "e">>,
     <<"h", "a", "n", "g", " ", "u", "p">>,
     <<"h", "a", "n", "g", "u", "p">>,
     <<"e", "n", "d", " ", "t", "h", "e", " ", "c", "a", "l", "l">>,
     <<"e", "n", "d", " ", "c", "a", "l", "l">>,
     <<"t", "h", "a", "t", "'", "s", " ", "a", "l", "l">>,
     <<"t", "h", "a", "t", "s", " ", "a", "l", "l">>,
     <<"n", "o", "t", "h", "i", "n", "g", " ", "e", "l", "s", "e">>,
     <<"n", "o", " ", "t", "h", "a", "n", "k", "s">>,
     <<"n", "o", " ", "t", "h", "a", "n", "k", " ", "y", "o", "u">>,
     <<"i", "'", "m", " ", "d", "o", "n", "e">>,
     <<"i", "m", " ", "d", "o", "n", "e">>,
     <<"a", "l", "l", " ", "s", "e", "t">>}

\* _is_affirmative (hangup.py 63-67).
_is_affirmative(text) ==
    LET t == _norm(text)
    IN  t # <<>> /\ \E m \in _AFFIRMATIVE_MARKERS : Contains(t, m)

\* _is_end_call_intent (hangup.py 70-74).
_is_end_call_intent(text) ==
    LET t == _norm(text)
    IN  t # <<>> /\ \E m \in _END_CALL_MARKERS : Contains(t, m)

\* re.search(r"@[a-z0-9.-]+\\.[a-z]{2,}", t): an "@", one or more of
\* [a-z0-9.-], a backslash, any character, two or more letters.
AddressPattern(t) ==
    \E i \in 1..Len(t), n \in 1..Len(t) :
        /\ i + n + 4 <= Len(t)
        /\ t[i] = "@"
        /\ \A j \in (i + 1)..(i + n) : t[j] \in Letters \cup Digits \cup {".", "-"}
        /\ t[i + n + 1] = "\\"
        /\ t[i + n + 3] \in Letters
        /\ t[i + n + 4] \in Letters

TopLevelDomains == {<<"c", "o", "m">>, <<"n", "e", "t">>, <<"o", "r", "g">>, <<"i", "o">>, <<"c", "o">>}

\* re.search(r"\\b[a-z]{2,}\\.(com|net|org|io|co)\\b", t): a backslash and
\* "b", two or more letters, a backslash, any character, one of the
\* top-level domains, a backslash and "b".
DomainPattern(t) ==
    \E i \in 1..Len(t), n \in 2..Len(t), d \in TopLevelDomains :
        /\ i + n + 5 + Len(d) <= Len(t)
        /\ t[i] = "\\" /\ t[i + 1] = "b"
        /\ \A j \in (i + 2)..(i + n + 1) : t[j] \in Letters
        /\ t[i + n + 2] = "\\"
        /\ SubSeq(t, i + n + 4, i + n + 3 + Len(d)) = d
        /\ t[i + n + 4 + Len(d)] = "\\" /\ t[i + n + 5 + Len(d)] = "b"

\* _looks_like_emailish (hangup.py 51-60).
_looks_like_emailish(text) ==
    LET t == _norm(text)
        padded == <<" ">> \o t \o <<" ">>
    IN  IF t = <<>> THEN FALSE
        ELSE IF Contains(t, <<"@">>) THEN AddressPattern(t)
        ELSE IF Contains(padded, <<" ", "a", "t", " ">>)
        THEN Contains(padded, <<" ", "d", "o", "t", " ">>) \/ DomainPattern(t)
        ELSE FALSE

\* _assistant_is_confirming_contact (hangup.py 77-87).
_assistant_is_confirming_contact(text) ==
    LET t == _norm(text)
    IN  IF t = <<>> THEN FALSE
        ELSE \/ Contains(t, <<"i", "s", " ", "t", "h", "a", "t", " ", "c", "o", "r", "r", "e", "c", "t">>)
             \/ Contains(t, <<"i", "s", " ", "t", "h", "a", "t", " ", "r", "i", "g", "h", "t">>)
             \/ Contains(t, <<"d", "i", "d", " ", "i", " ", "g", "e", "t", " ", "t", "h", "a", "t">>)
             \/ (Contains(t, <<"e", "m", "a", "i", "l">>) /\ EndsWith(t, <<"?">>))
             \/ (/\ Contains(t, <<"e", "m", "a", "i", "l", " ", "a", "d", "d", "r", "e", "s", "s">>)
                 /\ (Contains(t, <<"c", "o", "n", "f", "i", "r", "m">>) \/ Contains(t, <<"c", "o", "r", "r", "e", "c", "t">>)))

\* What callers and the assistant say in the conversations explored.
UserTexts ==
    {<<"t", "h", "a", "n", "k", "s", " ", "B", "y", "e">>,
     <<"t", "h", "a", "n", "k", " ", "y", "o", "u">>,
     <<"b", "o", "b", " ", "a", "t", " ", "x", " ", "d", "o", "t", " ", "c", "o", "m">>,
     <<"b", "@", "x", ".", "c", "o", "m">>,
     <<"y", "e", "s">>,
     <<" ">>}

AssistantTexts ==
    {<<"i", "s", " ", "t", "h", "a", "t", " ", "c", "o", "r", "r", "e", "c", "t", "?">>,
     <<"w", "a", "n", "t", " ", "a", " ", "t", "r", "a", "n", "s", "c", "r", "i", "p", "t", "?">>,
     <<"o", "k">>}

Messages ==
    [role : {"user"}, content : UserTexts] \cup [role : {"assistant"}, content : AssistantTexts]

RECURSIVE Histories(_)
Histories(n) ==
    IF n = 0 THEN {<<>>}
    ELSE Histories(n - 1) \cup {Append(h, m) : h \in {g \in Histories(n - 1) : Len(g) = n - 1},
                                                m \in Messages}

\* The last message of `role` with non-blank content (hangup.py 172-179), as its
\* text; the empty text when there is none.
RECURSIVE LastText(_, _)
LastText(messages, role) ==
    IF messages = <<>> THEN <<>>
    ELSE IF Last(messages).role = role /\ NonBlank(Last(messages).content)
    THEN Last(messages).content
    ELSE LastText(SubSeq(messages, 1, Len(messages) - 1), role)

\* The contents of the last RecentWindow messages joined by blanks and
\* lower-cased (hangup.py 193-197).
RecentWindow == 10

RECURSIVE JoinContents(_)
JoinContents(messages) ==
    IF messages = <<>> THEN <<>>
    ELSE IF Len(messages) = 1 THEN Head(messages).content
    ELSE Head(messages).content \o <<" ">> \o JoinContents(Tail(messages))

Recent(messages) ==
    Lower(JoinContents(SubSeq(messages, Max(1, Len(messages) - RecentWindow + 1),
                              Len(messages))))

(* ----------------------------- the registry ---------------------------- *)
\* ToolRegistry._tools after initialize_default_tools (registry.py 280-330):
\* the names execute is modelled for.
_tools == {"hangup_call", "leave_voicemail", "transfer"}

\* ToolRegistry.TOOL_ALIASES (registry.py 25-30).
TOOL_ALIASES ==
    [transfer_call |-> "transfer", hangup |-> "hangup_call", end_call |-> "hangup_call",
     transfer_to_queue |-> "transfer"]

AliasNames == {"transfer_call", "hangup", "end_call", "transfer_to_queue"}

\* ToolRegistry.get (registry.py 69-89): the registered tool's name, or
\* "none" for Python's None.
RegistryGet(name) ==
    IF name \in _tools THEN name
    ELSE IF name \in AliasNames /\ TOOL_ALIASES[name] \in _tools THEN TOOL_ALIASES[name]
    ELSE "none"

(* ------------------------ the registry as it changes ------------------- *)
\* ToolRegistry._tools is a dict: its keys keep their insertion order, which
\* get_all and list_tools return (registry.py 110-117, 333-340).  A registry
\* is the sequence of its keys; the tool under a key carries that name.
MaxOps == 3
ToolNames == {"transfer", "attended_transfer", "hangup_call", "leave_voicemail"}
LookupNames == ToolNames \cup AliasNames

Registered(tools) == {tools[i] : i \in 1..Len(tools)}

\* register and register_instance (registry.py 40-67): a new key goes to
\* the end, a key already present keeps its place and gets the new tool.
register(tools, name) == IF name \in Registered(tools) THEN tools ELSE Append(tools, name)

unregister_PopsLast(tools, name) ==
    IF name \in Registered(tools) THEN SubSeq(tools, 1, Len(tools) - 1) ELSE tools

\* unregister (registry.py 95-101).
unregister(tools, name) ==
    LET Others(key) == key # name
    IN  IF name \in Registered(tools) THEN SelectSeq(tools, Others) ELSE tools

\* get (registry.py 69-89) on a given registry.
get(tools, name) ==
    IF name \in Registered(tools) THEN name
    ELSE IF name \in AliasNames /\ TOOL_ALIASES[name] \in Registered(tools)
    THEN TOOL_ALIASES[name]
    ELSE "none"

\* list_tools (registry.py 333-340).
list_tools(tools) == tools

Applied(op, tools) ==
    IF op.op = "register" THEN register(tools, op.name) ELSE unregister(tools, op.name)

\* __new__ (registry.py 33-38): an empty registry.  ops are the last
\* MaxOps operations and base the registry they were applied to.
RegistryConstructed == registry = [_tools |-> <<>>, base |-> <<>>, ops |-> <<>>]

\* The record of the last operations after one more.
Recorded(op) ==
    IF Len(registry.ops) < MaxOps
    THEN [base |-> registry.base, ops |-> Append(registry.ops, op)]
    ELSE [base |-> Applied(registry.ops[1], registry.base),
          ops |-> Append(Tail(registry.ops), op)]

Register(name) ==
    /\ registry' = [_tools |-> register(registry._tools, name),
                    base |-> Recorded([op |-> "register", name |-> name]).base,
                    ops |-> Recorded([op |-> "register", name |-> name]).ops]
    /\ UNCHANGED beyond_registry

Unregister(name) ==
    /\ registry' = [_tools |-> unregister(registry._tools, name),
                    base |-> Recorded([op |-> "unregister", name |-> name]).base,
                    ops |-> Recorded([op |-> "unregister", name |-> name]).ops]
    /\ UNCHANGED beyond_registry

\* Names a model may put into a function_call item.
RequestedNames ==
    {"hangup_call", "end_call", "leave_voicemail", "transfer_call", "cancel_transfer"}

\* context["allowed_tools"]: None (no allowlist) or a list of names.
Allowlists ==
    {[restricted |-> FALSE, names |-> {}],
     [restricted |-> TRUE, names |-> {"hangup_call"}],
     [restricted |-> TRUE, names |-> {"end_call", "leave_voicemail"}]}

\* context["config"]["tools"]: its "enabled" key, request_transcript.enabled
\* and leave_voicemail (absent or disabled, enabled without an extension,
\* enabled with an extension).
ToolConfigs ==
    [enabled : {"True", "False", "absent"}, transcript_enabled : BOOLEAN,
     leave_voicemail : {"disabled", "no-extension", "configured"}]

NoResult == [status |-> "none", message |-> "none", will_hangup |-> "absent",
             ai_should_speak |-> "absent"]

Result(status, message, will_hangup, ai_should_speak) ==
    [status |-> status, message |-> message, will_hangup |-> will_hangup,
     ai_should_speak |-> ai_should_speak]

NoCall == [pc |-> "idle", n |-> 0, name |-> "none", item_type |-> "none",
           executed |-> "none", result |-> NoResult, faulted |-> FALSE]

\* The call's session, the context handed to the adapter and the adapter
\* before its first tool call.
ToolInit(messages, config, allowed) ==
    /\ call_session = [cleanup_after_tts |-> FALSE, transfer_active |-> FALSE,
                       conversation_history |-> messages]
    /\ tools_config = config
    /\ allowed_tools = allowed
    /\ adapter = NoCall
    /\ ws_log = <<>>
    /\ ari_log = <<>>

(* ------------------------ HangupCallTool.execute ----------------------- *)
\* hangup.py 184-209: transcript sending is enabled, the caller's last words are
\* an end-of-call phrase and the recent messages do not mention a transcript.
TranscriptNotOffered(messages) ==
    /\ tools_config.transcript_enabled
    /\ _is_end_call_intent(LastText(messages, "user"))
    /\ ~Contains(Recent(messages), <<"t", "r", "a", "n", "s", "c", "r", "i", "p", "t">>)

\* hangup.py 211-216.
pending_contact_confirmation(messages) ==
    /\ _looks_like_emailish(LastText(messages, "user"))
    /\ ~_is_affirmative(LastText(messages, "user"))
    /\ _assistant_is_confirming_contact(LastText(messages, "assistant"))
    /\ ~_is_end_call_intent(LastText(messages, "user"))

\* execute (hangup.py 133-263): the result; update_ok says whether
\* context.update_session(cleanup_after_tts=True) returns or raises.
HangupResult(messages, update_ok) ==
    IF messages # <<>> /\ TranscriptNotOffered(messages)
    THEN Result("blocked", "offer-transcript", "False", "True")
    ELSE IF messages # <<>> /\ pending_contact_confirmation(messages)
    THEN Result("blocked", "confirm-email", "False", "True")
    ELSE IF update_ok
    THEN Result("success", "farewell", "True", "absent")
    ELSE Result("error", "goodbye", "True", "absent")

\* execute's effect on the session (hangup.py 243).
HangupSession(sess, update_ok) ==
    IF HangupResult(sess.conversation_history, update_ok).status = "success"
    THEN [sess EXCEPT !.cleanup_after_tts = TRUE]
    ELSE sess

\* What the other tools' execute can return to the adapter: a result
\* without will_hangup, or an exception.
OtherOutcomes == {"success", "failed", "raised"}

(* -------------------------- VoicemailTool.execute ---------------------- *)
\* voicemail.py 74-89: the result returned before anything is done when the
\* tool is not enabled or has no extension; NoResult when it goes on.
VoicemailUnavailable ==
    IF tools_config.leave_voicemail = "disabled"
    THEN Result("failed", "voicemail-not-available", "absent", "absent")
    ELSE IF tools_config.leave_voicemail = "no-extension"
    THEN Result("failed", "voicemail-not-configured", "absent", "absent")
    ELSE NoResult

\* What an exception out of tool.execute becomes (openai.py 167-176).
ExecutionFailed == Result("error", "execution-failed", "absent", "absent")

VoicemailBegin_FlagAfterContinue(update_ok) ==
    IF VoicemailUnavailable # NoResult
    THEN [pc |-> "result", result |-> VoicemailUnavailable, session |-> call_session]
    ELSE IF update_ok
    THEN [pc |-> "vm_grace", result |-> NoResult, session |-> call_session]
    ELSE [pc |-> "result", result |-> ExecutionFailed, session |-> call_session]

\* voicemail.py 74-101: up to the grace sleep.  update_ok says whether
\* context.update_session(transfer_active=True, ...) returns or raises.
VoicemailBegin(update_ok) ==
    IF VoicemailUnavailable # NoResult
    THEN [pc |-> "result", result |-> VoicemailUnavailable, session |-> call_session]
    ELSE IF update_ok
    THEN [pc |-> "vm_grace", result |-> NoResult,
          session |-> [call_session EXCEPT !.transfer_active = TRUE]]
    ELSE [pc |-> "result", result |-> ExecutionFailed, session |-> call_session]

(* --------------------------- OpenAIToolAdapter ------------------------- *)
\* A name that is listed in the registry instead of in the call's allowlist.
NotAllowed_Registered(name) == RegistryGet(name) = "none"

\* openai.py 114-115: the call has an allowlist and the name is not in it.
NotAllowed(name) == allowed_tools.restricted /\ name \notin allowed_tools.names

\* handle_tool_call_event (openai.py 58-145) up to the tool's execute: the
\* tool that will run, or the error result returned instead.
Rejection(name, item_type) ==
    IF tools_config.enabled = "False"
    THEN Result("error", "tools-disabled", "absent", "False")
    ELSE IF item_type # "function_call"
    THEN Result("error", "not-a-function-call", "absent", "absent")
    ELSE IF NotAllowed(name)
    THEN Result("error", "not-allowed", "absent", "absent")
    ELSE IF RegistryGet(name) = "none"
    THEN Result("error", "unknown-tool", "absent", "absent")
    ELSE NoResult

\* handle_tool_call_event with the tool's execute (openai.py 58-176).
HandleToolCallEvent(name, item_type, update_ok, other) ==
    /\ adapter.pc = "idle"
    /\ adapter.n < MaxToolCalls
    /\ LET rejected == Rejection(name, item_type)
           tool == IF rejected = NoResult THEN RegistryGet(name) ELSE "none"
           result == IF rejected # NoResult THEN rejected
                     ELSE IF tool = "hangup_call"
                     THEN HangupResult(call_session.conversation_history, update_ok)
                     ELSE IF tool = "leave_voicemail"
                     THEN VoicemailBegin(update_ok).result
                     ELSE IF other = "raised"
                     THEN ExecutionFailed
                     ELSE Result(other, "other", "absent", "absent")
       IN  /\ (tool \in {"hangup_call", "leave_voicemail"} \/ update_ok)
           /\ (tool \in _tools \ {"hangup_call", "leave_voicemail"} \/ other = "success")
           /\ call_session' = IF tool = "hangup_call"
                              THEN HangupSession(call_session, update_ok)
                              ELSE IF tool = "leave_voicemail"
                              THEN VoicemailBegin(update_ok).session
                              ELSE call_session
           /\ adapter' = [pc |-> IF tool = "leave_voicemail"
                                 THEN VoicemailBegin(update_ok).pc ELSE "result",
                          n |-> adapter.n + 1, name |-> name,
                          item_type |-> item_type, executed |-> tool, result |-> result,
                          faulted |-> FALSE]
    /\ UNCHANGED <<tools_config, allowed_tools, ws_log, ari_log, beyond_tools>>

\* voicemail.py 103-163, after the 800 ms sleep: the ARI continue command
\* is sent; when it raises, the flag is reset (update_ok: that update
\* returns or raises in its turn).
VoicemailContinue(sent, update_ok) ==
    /\ adapter.pc = "vm_grace"
    /\ ari_log' = Append(ari_log, [call |-> adapter.n, command |-> "continue",
                                   accepted |-> sent])
    /\ IF sent
       THEN /\ update_ok
            /\ adapter' = [adapter EXCEPT !.pc = "result",
                              !.result = Result("success", "ready-to-leave-message",
                                                "absent", "absent")]
            /\ UNCHANGED call_session
       ELSE IF update_ok
       THEN /\ call_session' = [call_session EXCEPT !.transfer_active = FALSE]
            /\ adapter' = [adapter EXCEPT !.pc = "result",
                              !.result = Result("failed", "unable-to-transfer",
                                                "absent", "absent")]
       ELSE /\ adapter' = [adapter EXCEPT !.pc = "result", !.result = ExecutionFailed]
            /\ UNCHANGED call_session
    /\ UNCHANGED <<tools_config, allowed_tools, ws_log, beyond_tools>>

\* bool(result.get(key, default)) on the model's three values.
Truthy(value, default) == IF value = "absent" THEN default ELSE value = "True"

\* send_tool_result, step 1 (openai.py 205-236): without a websocket nothing
\* is sent; otherwise the function_call_output item is sent, and the hangup
\* special case returns before step 2.
SendToolResult(websocket) ==
    /\ adapter.pc = "result"
    /\ IF websocket # "open"
       THEN /\ adapter' = [adapter EXCEPT !.pc = "idle", !.faulted = TRUE]
            /\ UNCHANGED ws_log
       ELSE /\ ws_log' = Append(ws_log, [call |-> adapter.n, type |-> "function_call_output"])
            /\ adapter' = [adapter EXCEPT !.pc =
                              IF /\ adapter.name = "hangup_call"
                                 /\ Truthy(adapter.result.will_hangup, FALSE)
                              THEN "idle" ELSE "respond"]
    /\ UNCHANGED <<call_session, tools_config, allowed_tools, ari_log, beyond_tools>>

\* send_tool_result, step 2 (openai.py 238-263): response.create.
SendResponseCreate(sent) ==
    /\ adapter.pc = "respond"
    /\ IF sent
       THEN /\ ws_log' = Append(ws_log, [call |-> adapter.n, type |-> "response.create"])
            /\ adapter' = [adapter EXCEPT !.pc = "idle"]
       ELSE /\ adapter' = [adapter EXCEPT !.pc = "idle", !.faulted = TRUE]
            /\ UNCHANGED ws_log
    /\ UNCHANGED <<call_session, tools_config, allowed_tools, ari_log, beyond_tools>>

(* ======================================================================= *)
(* Part 6: the session store and its writers.  The streaming manager and    *)
(* the tools change the call's session with get_by_call_id, a change of the *)
(* object they got, and upsert_call; each of the two calls is awaited.  The *)
(* store itself is described in spec 4.D: reads return a snapshot, an       *)
(* upsert is a versioned replace.                                           *)
(* ======================================================================= *)
MaxRounds == 1

ManagerWriters == {"producer", "keepalive", "cleanup"}
ToolWriters == {"hangup_call", "leave_voicemail", "attended_transfer"}
Writers == ManagerWriters \cup ToolWriters

NoSnapshot == [version |-> -1]

\* The session of a call whose stream is running.
StoredSession ==
    [version |-> 0, streaming_started |-> TRUE, current_stream_id |-> 1,
     streaming_bytes_sent |-> 0, streaming_keepalive_sent |-> 0,
     cleanup_after_tts |-> FALSE, transfer_active |-> FALSE, current_action |-> "none"]

StoreConstructed(rounds) ==
    /\ store = StoredSession
    /\ store_tasks = [w \in Writers |->
                         [pc |-> "idle", sess |-> NoSnapshot,
                          left |-> IF w \in ManagerWriters THEN rounds
                                   ELSE IF rounds = 0 THEN 0 ELSE 1]]
    /\ store_log = [applied |-> {}, overtaken |-> {}]

StoreIdle == StoreConstructed(0)

\* get_by_call_id (spec 4.D): a copy-on-read snapshot of the stored session.
get_by_call_id(stored) == stored

\* An upsert that replaces the stored session whatever its version is.
upsert_call_Overwrites(stored, sess) == [sess EXCEPT !.version = stored.version + 1]

\* upsert_call (spec 4.D): a versioned replace, serialized by a CAS: the
\* session replaces the stored one if it is a snapshot of the stored version.
upsert_call(stored, sess) ==
    IF sess.version = stored.version THEN [sess EXCEPT !.version = @ + 1] ELSE stored

\* What each writer changes on the object it got: the producer
\* (streaming_playback_manager.py 646-650), the keepalive (1953-1956), the
\* cleanup (2308-2312), hangup_call (hangup.py 243), leave_voicemail
\* (voicemail.py 99-102) and attended_transfer (attended_transfer.py 131-150).
Modified(w, sess) ==
    CASE w = "producer" -> [sess EXCEPT !.streaming_bytes_sent = @ + 1]
      [] w = "keepalive" -> [sess EXCEPT !.streaming_keepalive_sent = @ + 1]
      [] w = "cleanup" -> [sess EXCEPT !.streaming_started = FALSE, !.current_stream_id = 0]
      [] w = "hangup_call" -> [sess EXCEPT !.cleanup_after_tts = TRUE]
      [] w = "leave_voicemail" -> [sess EXCEPT !.transfer_active = TRUE]
      [] w = "attended_transfer" -> [sess EXCEPT !.current_action = "attended_transfer"]

\* The fields the tools have written are in the session.
HasToolFields(sess, tools) ==
    /\ "hangup_call" \in tools => sess.cleanup_after_tts
    /\ "leave_voicemail" \in tools => sess.transfer_active
    /\ "attended_transfer" \in tools => sess.current_action = "attended_transfer"

\* `sess = await self.session_store.get_by_call_id(call_id)`
StoreGet(w) ==
    /\ store_tasks[w].pc = "idle"
    /\ store_tasks[w].left > 0
    /\ store_tasks' = [store_tasks EXCEPT ![w].pc = "got", ![w].sess = get_by_call_id(store),
                                          ![w].left = @ - 1]
    /\ UNCHANGED <<store, store_log, beyond_store>>

\* The change of the object and `await self.session_store.upsert_call(sess)`.
StoreUpsert(w) ==
    /\ store_tasks[w].pc = "got"
    /\ store' = upsert_call(store, Modified(w, store_tasks[w].sess))
    /\ store_tasks' = [store_tasks EXCEPT ![w].pc = "idle", ![w].sess = NoSnapshot]
    /\ store_log' =
          [applied |-> IF w \in ToolWriters /\ store'.version # store.version
                       THEN store_log.applied \cup {w} ELSE store_log.applied,
           overtaken |-> IF /\ w \in ManagerWriters
                            /\ ~HasToolFields(store_tasks[w].sess, store_log.applied)
                         THEN store_log.overtaken \cup {w} ELSE store_log.overtaken]
    /\ UNCHANGED beyond_store

(* ======================================================================= *)
(* Part 7: the thresholds of a stream as functions of the configuration     *)
(* (streaming_playback_manager.py, __init__ and start_streaming_playback),  *)
(* and the grace wait of _cleanup_stream.  All times are in milliseconds.   *)
(* ======================================================================= *)
JitterBufferMs == {0, 20, 50, 100, 200}
ChunkSizeMs == {10, 20}
MinStartMs == {0, 60, 120, 300}
LowWatermarkMs == {0, 40, 80, 200}
ProviderGraceMs == {0, 40, 60, 500}
GreetingMinStartMs == {0, 40}

StreamingConfigs ==
    [jitter_buffer_ms : JitterBufferMs, chunk_size_ms : ChunkSizeMs,
     min_start_ms : MinStartMs, low_watermark_ms : LowWatermarkMs,
     provider_grace_ms : ProviderGraceMs, greeting_min_start_ms : GreetingMinStartMs]

\* Time since the previous segment of the call ended; NoPrevious when the
\* call has no entry in _last_segment_end_ts.
NoPrevious == -1
Gaps == {NoPrevious, 0, 30, 60, 100, 500, 600}

PlaybackTypes == {"greeting", "response"}

\* `x or 500` of Python: 0 counts as unset.
Or500(x) == IF x = 0 THEN 500 ELSE x

\* __init__ (lines 188-207): the derived chunk counts.
Derived(c) ==
    LET msc == Max(1, CeilDiv(Max(0, c.min_start_ms), Max(1, c.chunk_size_ms)))
    IN  [min_start_ms |-> Max(0, c.min_start_ms),
         provider_grace_ms |-> Max(0, c.provider_grace_ms),
         min_start_chunks |-> msc,
         low_watermark_chunks |->
             Max(0, CeilDiv(Max(0, c.low_watermark_ms), Max(1, c.chunk_size_ms))),
         greeting_min_start_chunks |->
             IF c.greeting_min_start_ms > 0
             THEN Max(1, CeilDiv(c.greeting_min_start_ms, Max(1, c.chunk_size_ms)))
             ELSE msc]

\* A warm-up threshold that follows the configuration however small the
\* jitter buffer is.
ClampedMinStart_Unclamped(configured_min_start, jbc) == Max(1, configured_min_start)

\* Lines 366-369: the warm-up threshold leaves one slot of the jitter
\* buffer spare.
ClampedMinStart(configured_min_start, jbc) ==
    LET max_startable == Max(1, jbc - 1)
    IN  Max(1, Min(configured_min_start, max_startable))

\* A low watermark that is not capped.
ClampedLowWatermark_Uncapped(configured_low_watermark, msc, jbc) == configured_low_watermark

\* Lines 384-389: the low watermark is capped below the warm-up threshold
\* and at half of the jitter buffer.
ClampedLowWatermark(configured_low_watermark, msc, jbc) ==
    LET max_low == Max(0, msc - 1)
        half_capacity == Max(0, jbc \div 2)
        effective_cap == Max(0, Min(max_low, half_capacity))
    IN  IF configured_low_watermark = 0 THEN 0
        ELSE Min(configured_low_watermark, effective_cap)

\* start_streaming_playback, lines 321-406: the size of the jitter buffer,
\* the warm-up and low-watermark thresholds and the initial readiness of a
\* stream of the given type that starts gap milliseconds after the previous
\* segment ended.  The fields carry the names of the code's locals.
Thresholds(c, playback_type, gap) ==
    LET self == Derived(c)
        chunk_ms == Max(1, c.chunk_size_ms)
        jbc == Max(1, CeilDiv(Max(0, c.jitter_buffer_ms), chunk_ms))
        gap_ms == IF gap = NoPrevious THEN 999999 ELSE Max(0, gap)
        base_min_ms == Max(1, self.min_start_ms)
        amin == IF playback_type = "greeting" THEN base_min_ms
                ELSE IF gap_ms <= Or500(self.provider_grace_ms)
                THEN Max(80, base_min_ms \div 2)
                ELSE Max(base_min_ms, 400)
        adaptive_min_chunks == Max(1, CeilDiv(amin, chunk_ms))
        configured_min_start ==
            IF playback_type = "greeting" THEN self.greeting_min_start_chunks
            ELSE adaptive_min_chunks
        msc == ClampedMinStart(configured_min_start, jbc)
        scaled_lw == Max(0, CeilDiv(msc * 2, 3))
        configured_low_watermark == Max(self.low_watermark_chunks, scaled_lw)
    IN  [jb_chunks |-> jbc,
         gap_ms |-> gap_ms,
         adaptive_min_ms |-> amin,
         configured_min_start |-> configured_min_start,
         min_start_chunks |-> msc,
         scaled_lw |-> scaled_lw,
         configured_low_watermark |-> configured_low_watermark,
         self_low_watermark_chunks |-> self.low_watermark_chunks,
         low_watermark_chunks |-> ClampedLowWatermark(configured_low_watermark, msc, jbc),
         initial_startup_ready |-> gap_ms <= Or500(self.provider_grace_ms)]

\* _cleanup_stream, lines 2176-2182: how long the cleanup sleeps before it
\* flushes the remainder.
CleanupGraceMs(c) ==
    LET self == Derived(c)
    IN  IF self.provider_grace_ms # 0 THEN self.provider_grace_ms ELSE 0

NothingComputed == [op |-> "none"]

ConfigConstructed(c) ==
    /\ streaming_config = c
    /\ computed = NothingComputed

ConfigIdle ==
    ConfigConstructed([jitter_buffer_ms |-> 50, chunk_size_ms |-> 20, min_start_ms |-> 120,
                       low_watermark_ms |-> 80, provider_grace_ms |-> 500,
                       greeting_min_start_ms |-> 0])

\* A start call computes the thresholds of its stream.
StartThresholds(playback_type, gap) ==
    /\ computed' = [op |-> "start", playback_type |-> playback_type, gap |-> gap,
                    th |-> Thresholds(streaming_config, playback_type, gap)]
    /\ UNCHANGED <<streaming_config, beyond_config>>

\* A cleanup sleeps its grace period.
CleanupGrace ==
    /\ computed' = [op |-> "cleanup", waited_ms |-> CleanupGraceMs(streaming_config)]
    /\ UNCHANGED <<streaming_config, beyond_config>>

(* ======================================================================= *)
(* Part 8: the byte order of PCM16 egress (streaming_playback_manager.py,   *)
(* start_streaming_playback 501-514 and _apply_pcm_endianness 1632-1738).   *)
(* A frame is a sequence of 16-bit samples, a sample a pair <<low, high>>   *)
(* of bytes as they go to the transport.                                    *)
(* ======================================================================= *)
MaxEgressFrames == 3

EgressBytes == {0, 2, 3}
EgressSamples == EgressBytes \X EgressBytes
EgressFrames == {<<>>} \cup {<<s>> : s \in EgressSamples}
                       \cup {<<s, s>> : s \in {<<2, 0>>, <<0, 2>>}}

SwapModes == {"auto", "force_true", "force_false"}
TargetFormats == {"slin16", "ulaw"}

\* The value of a little-endian signed 16-bit sample.
SampleValue(s) ==
    LET u == s[1] + 256 * s[2]
    IN  IF u >= 32768 THEN u - 65536 ELSE u

RECURSIVE SumSquares(_)
SumSquares(frame) ==
    IF frame = <<>> THEN 0
    ELSE SampleValue(Head(frame)) * SampleValue(Head(frame)) + SumSquares(Tail(frame))

\* The largest r in lo..hi with r * r <= x.
RECURSIVE Isqrt(_, _, _)
Isqrt(lo, hi, x) ==
    IF lo >= hi THEN lo
    ELSE LET mid == (lo + hi + 1) \div 2
         IN  IF mid * mid <= x THEN Isqrt(mid, hi, x) ELSE Isqrt(lo, mid - 1, x)

\* audioop.rms(frame, 2)
rms(frame) == IF frame = <<>> THEN 0 ELSE Isqrt(0, 32768, SumSquares(frame) \div Len(frame))

\* audioop.byteswap(frame, 2)
byteswap(frame) == [k \in DOMAIN frame |-> <<frame[k][2], frame[k][1]>>]

IsPcm16(fmt) == fmt \in {"slin16", "linear16", "pcm16"}

\* start_streaming_playback, lines 501-514 and 548-549: the stream's
\* egress_swap from the mode and the inbound probe of the session.
InitialEgressSwap(mode, audiosocket_format, pcm16_inbound_swap) ==
    LET egress_swap_auto == IsPcm16(audiosocket_format) /\ pcm16_inbound_swap
    IN  IF mode = "force_true" THEN TRUE
        ELSE IF mode = "force_false" THEN FALSE
        ELSE egress_swap_auto

\* A probe on every frame.
probe_needed_Always(stream_info) == TRUE

\* Line 1666.
probe_needed(stream_info) == ~stream_info.egress_probe_done

\* A probe that corrects in every mode.
ProbeCorrects_InEveryMode(mode, egress_swap, rms_native, rms_swapped) ==
    /\ ~egress_swap
    /\ rms_swapped >= Max(512, 4 * Max(1, rms_native))

\* Lines 1699-1701: the probe turns the swap on.
ProbeCorrects(mode, egress_swap, rms_native, rms_swapped) ==
    /\ mode # "force_false"
    /\ ~egress_swap
    /\ rms_swapped >= Max(512, 4 * Max(1, rms_native))

\* _apply_pcm_endianness: the bytes handed on, the stream_info afterwards,
\* whether the frame was probed and whether the correction metric was
\* incremented.
_apply_pcm_endianness(pcm_bytes, stream_info, mode) ==
    LET unchanged == [out |-> pcm_bytes, info |-> stream_info, probed |-> FALSE,
                      corrected |-> FALSE]
        probing == probe_needed(stream_info)
        rms_native == rms(pcm_bytes)
        swapped_bytes == byteswap(pcm_bytes)
        rms_swapped == rms(swapped_bytes)
        info1 == IF probing THEN [stream_info EXCEPT !.egress_probe_done = TRUE]
                 ELSE stream_info
    IN  IF pcm_bytes = <<>> THEN unchanged
        ELSE IF ~IsPcm16(stream_info.target_format) THEN unchanged
        ELSE IF probing /\ ProbeCorrects(mode, stream_info.egress_swap, rms_native, rms_swapped)
        THEN [out |-> swapped_bytes, info |-> [info1 EXCEPT !.egress_swap = TRUE],
              probed |-> TRUE, corrected |-> TRUE]
        ELSE IF (probing \/ mode = "force_true") /\ mode = "force_true"
                /\ ~stream_info.egress_swap
        THEN [out |-> swapped_bytes, info |-> [info1 EXCEPT !.egress_swap = TRUE],
              probed |-> probing, corrected |-> FALSE]
        ELSE [out |-> IF stream_info.egress_swap THEN byteswap(pcm_bytes) ELSE pcm_bytes,
              info |-> info1, probed |-> probing, corrected |-> FALSE]

NoStreamInfo ==
    [stream_id |-> 0, target_format |-> "ulaw", egress_swap |-> FALSE,
     egress_swap_mode |-> "auto", egress_probe_done |-> FALSE]

\* The manager with its egress_swap_mode and audiosocket_format; frames is
\* the number of frames the run may send.
EgressConstructed(mode, audiosocket_format, frames) ==
    /\ egress = [egress_swap_mode |-> mode, audiosocket_format |-> audiosocket_format,
                 stream_info |-> NoStreamInfo, initial_swap |-> FALSE,
                 corrections |-> 0, frames |-> frames]
    /\ egress_log = <<>>

EgressIdle == EgressConstructed("auto", "ulaw", 0)

\* start_streaming_playback stores the stream's egress fields (lines 501-560).
EgressStart(pcm16_inbound_swap) ==
    /\ egress.stream_info.stream_id = 0
    /\ egress.frames > 0
    /\ LET swap == InitialEgressSwap(egress.egress_swap_mode, egress.audiosocket_format,
                                     pcm16_inbound_swap)
       IN  egress' = [egress EXCEPT !.stream_info =
                          [stream_id |-> 1, target_format |-> egress.audiosocket_format,
                           egress_swap |-> swap,
                           egress_swap_mode |-> egress.egress_swap_mode,
                           egress_probe_done |-> FALSE],
                                    !.initial_swap = swap]
    /\ UNCHANGED <<egress_log, beyond_egress>>

\* _process_audio_chunk hands a PCM16 frame to _apply_pcm_endianness with
\* the stream's mode (lines 947-948, 1058, 1296) and sends what it returns.
EgressFrame(frame) ==
    /\ egress.stream_info.stream_id # 0
    /\ Len(egress_log) < egress.frames
    /\ LET r == _apply_pcm_endianness(frame, egress.stream_info,
                                      egress.stream_info.egress_swap_mode)
       IN  /\ egress' = [egress EXCEPT !.stream_info = r.info,
                                       !.corrections = @ + (IF r.corrected THEN 1 ELSE 0)]
           /\ egress_log' = Append(egress_log,
                                   [pcm |-> frame, out |-> r.out, probed |-> r.probed,
                                    egress_swap |-> r.info.egress_swap])
    /\ UNCHANGED beyond_egress

(* ======================================================================= *)
(* Part 9: the attended_transfer tool (tools/telephony/attended_transfer.py,*)
(* execute 47-212 and _cleanup_failed_originate 319-334). The session is    *)
(* read and written through the session store of Part 6.                 *)
(* ======================================================================= *)
MaxTransfers == 3

\* What the requested destination resolves to (lines 60-104).
TransferDestinations == {"valid", "unknown", "not_extension", "not_allowed", "no_target"}

\* What the ARI originate gives back (lines 155-176).
OriginateOutcomes == {"id", "no_id", "none", "raises"}

NoAction == [type |-> "none", agent_channel_id |-> 0]

NoTransferResult == [status |-> "none", cause |-> "none"]

TransferSession(audio_capture_enabled) ==
    [version |-> 0, current_action |-> NoAction,
     audio_capture_enabled |-> audio_capture_enabled]

\* A call with its stored session, before any attended transfer.
TransferConstructed(audio_capture_enabled, calls) ==
    /\ xfer = [pc |-> "idle", session |-> TransferSession(audio_capture_enabled),
               before |-> TransferSession(audio_capture_enabled),
               result |-> NoTransferResult, left |-> calls]
    /\ xfer_call = [stored |-> TransferSession(audio_capture_enabled), moh |-> FALSE,
                    agent_legs |-> 0]

TransferIdle == TransferConstructed(TRUE, 0)

\* execute, lines 47-128: the destination checks, get_session and the
\* best-effort start of music on hold.
TransferExecute(destination, moh_started) ==
    /\ xfer.pc \in {"idle", "done"}
    /\ xfer.left > 0
    /\ IF destination # "valid"
       THEN /\ xfer' = [xfer EXCEPT !.pc = "done", !.left = @ - 1,
                                    !.before = xfer_call.stored,
                                    !.result = [status |-> "failed", cause |-> destination]]
            /\ UNCHANGED xfer_call
       ELSE /\ xfer' = [xfer EXCEPT !.pc = "record", !.left = @ - 1,
                                    !.before = xfer_call.stored,
                                    !.session = get_by_call_id(xfer_call.stored),
                                    !.result = NoTransferResult]
            /\ xfer_call' = [xfer_call EXCEPT !.moh = IF moh_started THEN TRUE ELSE @]
    /\ UNCHANGED beyond_transfer

\* Lines 130-150: current_action recorded, capture disabled, session upserted.
TransferRecord ==
    /\ xfer.pc = "record"
    /\ LET sess == [xfer.session EXCEPT
                          !.current_action = [type |-> "attended_transfer",
                                              agent_channel_id |-> 0],
                          !.audio_capture_enabled = FALSE]
       IN  /\ xfer' = [xfer EXCEPT !.pc = "originate", !.session = sess]
           /\ xfer_call' = [xfer_call EXCEPT !.stored = upsert_call(@, sess)]
    /\ UNCHANGED beyond_transfer

\* Lines 152-176: the agent leg is originated; anything but a result with
\* an id is a failure.
TransferOriginate(outcome) ==
    /\ xfer.pc = "originate"
    /\ xfer' = [xfer EXCEPT !.pc = IF outcome = "id" THEN "register" ELSE "cleanup_moh"]
    /\ xfer_call' = [xfer_call EXCEPT !.agent_legs = IF outcome = "id" THEN @ + 1 ELSE @]
    /\ UNCHANGED beyond_transfer

\* _cleanup_failed_originate, lines 320-326: music on hold stopped, best effort.
CleanupStopMoh(moh_stopped) ==
    /\ xfer.pc = "cleanup_moh"
    /\ xfer' = [xfer EXCEPT !.pc = "cleanup_action"]
    /\ xfer_call' = [xfer_call EXCEPT !.moh = IF moh_stopped THEN FALSE ELSE @]
    /\ UNCHANGED beyond_transfer

\* _cleanup_failed_originate, lines 329-332: the session a failed originate
\* leaves.
ClearedAction(sess) ==
    IF sess.current_action.type = "attended_transfer"
    THEN [sess EXCEPT !.current_action = NoAction]
    ELSE sess

\* _cleanup_failed_originate, lines 328-334, and the return of lines 179-182.
CleanupClearAction ==
    /\ xfer.pc = "cleanup_action"
    /\ LET sess == get_by_call_id(xfer_call.stored)
           cleared == ClearedAction(sess)
       IN  /\ xfer' = [xfer EXCEPT !.pc = "done", !.session = cleared,
                                    !.result = [status |-> "failed", cause |-> "originate"]]
           /\ xfer_call' = [xfer_call EXCEPT !.stored =
                               IF cleared = sess THEN @ ELSE upsert_call(@, cleared)]
    /\ UNCHANGED beyond_transfer

\* Lines 184-212: the agent channel recorded in current_action, success.
TransferRegister ==
    /\ xfer.pc = "register"
    /\ LET sess == get_by_call_id(xfer_call.stored)
           marked == IF sess.current_action.type = "attended_transfer"
                     THEN [sess EXCEPT !.current_action.agent_channel_id =
                                               xfer_call.agent_legs]
                     ELSE sess
       IN  /\ xfer' = [xfer EXCEPT !.pc = "done", !.session = marked,
                                    !.result = [status |-> "success", cause |-> "none"]]
           /\ xfer_call' = [xfer_call EXCEPT !.stored =
                               IF marked = sess THEN @ ELSE upsert_call(@, marked)]
    /\ UNCHANGED beyond_transfer

(* ======================================================================= *)
(* Part 10: the local provider's connection (providers/local.py,            *)
(* _reconnect 63-126, initialize 128-143, _receive_loop 443-454).           *)
(* ======================================================================= *)
MaxConnections == 2

\* Line 65.
backoff_schedule == <<2, 5, 10, 20, 30, 30, 30, 30>>

\* What _connect_ws does: a connection, ConnectionRefusedError/OSError, or
\* another exception such as the connect timeout.
ConnectOutcomes == {"connected", "refused", "error"}

NotDecided == "none"

\* The provider after __init__, with the number of _reconnect runs to follow.
LocalConstructed(runs) ==
    local = [websocket |-> "none", pc |-> "idle", caller |-> "none",
             attempt |-> 0, errors |-> <<>>, waits |-> <<>>, total_elapsed |-> 0,
             success |-> NotDecided, outcome |-> "none", tasks |-> 0, runs |-> runs]

LocalIdle == LocalConstructed(0)

\* The state at the top of _reconnect (lines 63-68).
ReconnectEntered(caller) ==
    [local EXCEPT !.pc = "attempt", !.caller = caller, !.attempt = 1,
                  !.errors = <<>>, !.waits = <<>>, !.total_elapsed = 0,
                  !.success = NotDecided, !.outcome = "none", !.runs = @ - 1]

\* initialize, lines 128-137: nothing to do on an open websocket, else
\* _reconnect.
Initialize ==
    /\ local.pc = "idle"
    /\ local.runs > 0
    /\ local' = IF local.websocket = "open"
                THEN [local EXCEPT !.outcome = "skipped", !.runs = @ - 1]
                ELSE ReconnectEntered("initialize")
    /\ UNCHANGED beyond_local

\* _receive_loop, lines 443-447: the connection closed, _reconnect.
ConnectionClosed ==
    /\ local.pc = "idle"
    /\ local.runs > 0
    /\ local.websocket = "open"
    /\ local' = [ReconnectEntered("_receive_loop") EXCEPT !.websocket = "closed"]
    /\ UNCHANGED beyond_local

\* A sleep after every failed attempt.
SleepsAfter_EveryAttempt(attempt) == TRUE

\* Line 122: a sleep follows every failed attempt but the last.
SleepsAfter(attempt) == attempt < Len(backoff_schedule)

\* _reconnect, lines 69-120: one pass of the loop up to the sleep.
ConnectAttempt(result) ==
    /\ local.pc = "attempt"
    /\ local' =
         IF result = "connected"
         THEN [local EXCEPT !.websocket = "open", !.tasks = 1, !.success = "true",
                            !.pc = "returned"]
         ELSE IF SleepsAfter(local.attempt)
         THEN [local EXCEPT !.errors = Append(@, result), !.pc = "sleep"]
         ELSE [local EXCEPT !.errors = Append(@, result), !.success = "false",
                            !.pc = "returned"]
    /\ UNCHANGED beyond_local

\* _reconnect, lines 122-126: the sleep, then the next attempt, or False
\* when the schedule is used up.
BackoffSleep ==
    /\ local.pc = "sleep"
    /\ LET delay == backoff_schedule[local.attempt]
           slept == [local EXCEPT !.waits = Append(@, delay),
                                  !.total_elapsed = @ + delay]
       IN  local' = IF local.attempt < Len(backoff_schedule)
                    THEN [slept EXCEPT !.attempt = @ + 1, !.pc = "attempt"]
                    ELSE [slept EXCEPT !.success = "false", !.pc = "returned"]
    /\ UNCHANGED beyond_local

\* The caller goes on with what _reconnect returned: initialize raises on
\* False (lines 137-143), _receive_loop logs it (lines 447-454).
ReconnectReturned ==
    /\ local.pc = "returned"
    /\ local' = [local EXCEPT !.pc = "idle",
                              !.outcome = IF local.success = "true" THEN "connected"
                                          ELSE IF local.caller = "initialize" THEN "raised"
                                          ELSE "logged"]
    /\ UNCHANGED beyond_local

(* ------------------------------ the system ----------------------------- *)
\* The playback manager of one call; the RTP server is constructed and idle.
Init ==
    /\ \E transport \in Transports, present \in BOOLEAN, scenario \in Scenarios :
          PlaybackInit(transport, present, scenario)
    /\ RtpConstructed(TRUE, [restricted |-> FALSE, hosts |-> {}])
    /\ ToolInit(<<>>, [enabled |-> "absent", transcript_enabled |-> FALSE,
                     leave_voicemail |-> "disabled"],
                [restricted |-> FALSE, names |-> {}])
    /\ DeepgramConstructed("linear16", [sessions |-> 0, msgs |-> 0, frames |-> 0])
    /\ OrchestratorConstructed(<<>>, "none")
    /\ RegistryConstructed
    /\ LocalIdle
    /\ TransferIdle
    /\ EgressIdle
    /\ ConfigIdle
    /\ StoreIdle

Next ==
    \/ \E i \in Streams : StartCall(i)
    \/ \E i \in Streams : StartGate(i)
    \/ \E i \in Streams, t \in {"greeting", "response"} : StartRegister(i, t)
    \/ \E s \in Streams, n \in ChunkLens : ProducerChunk(s, n)
    \/ \E s \in Streams : ProducerSentinel(s)
    \/ \E s \in Streams : ProducerTimeout(s)
    \/ \E s \in Streams : ProducerFallback(s)
    \/ \E s \in Streams : ProducerPut(s)
    \/ \E s \in Streams, ok \in BOOLEAN : ProducerCleanupFlush(s, ok)
    \/ \E s \in Streams : ProducerCleanupClear(s)
    \/ \E s \in Streams : ProducerCleanupRemove(s)
    \/ \E s \in Streams : ProducerCleanupPop(s)
    \/ \E s \in Streams, ok \in BOOLEAN : PacerTop(s, ok)
    \/ \E s \in Streams, ok \in BOOLEAN : PacerFrames(s, ok)
    \/ \E s \in Streams, ok \in BOOLEAN : PacerResume(s, ok)
    \/ \E s \in Streams, w \in BOOLEAN, ok \in BOOLEAN : PacerRebuild(s, w, ok)
    \/ \E s \in Streams : PacerFailed(s)
    \/ \E s \in Streams, timed_out \in BOOLEAN : KeepaliveTick(s, timed_out)
    \/ \E s \in Streams : KeepaliveTimeout(s)
    \/ \E s \in Streams : KeepaliveFallback(s)
    \/ \E k \in Stops : StopCall(k)
    \/ \E k \in Stops, ok \in BOOLEAN : StopCleanupFlush(k, ok)
    \/ \E k \in Stops : StopCleanupClear(k)
    \/ \E k \in Stops : StopCleanupRemove(k)
    \/ \E k \in Stops : StopCleanupPop(k)

Spec == Init /\ [][Next]_vars

\* One stream on a healthy transport whose provider keeps delivering chunks:
\* no send fails, no timer expires and nobody calls stop.
WarmupInit ==
    /\ \E transport \in Transports :
          PlaybackInit(transport, TRUE,
                       [starts |-> 1, chunks |-> MaxWarmupChunks, faults |-> 0, stops |-> 0])
    /\ RtpConstructed(TRUE, [restricted |-> FALSE, hosts |-> {}])
    /\ ToolInit(<<>>, [enabled |-> "absent", transcript_enabled |-> FALSE,
                     leave_voicemail |-> "disabled"],
                [restricted |-> FALSE, names |-> {}])
    /\ DeepgramConstructed("linear16", [sessions |-> 0, msgs |-> 0, frames |-> 0])
    /\ OrchestratorConstructed(<<>>, "none")
    /\ RegistryConstructed
    /\ LocalIdle
    /\ TransferIdle
    /\ EgressIdle
    /\ ConfigIdle
    /\ StoreIdle

StarterStep ==
    \/ \E i \in Streams : StartCall(i)
    \/ \E i \in Streams : StartGate(i)
    \/ \E i \in Streams, t \in {"greeting", "response"} : StartRegister(i, t)

ProviderStep == \E s \in Streams, n \in ChunkLens : ProducerChunk(s, n)

ProducerStep ==
    \/ \E s \in Streams : ProducerPut(s)
    \/ \E s \in Streams, ok \in BOOLEAN : ProducerCleanupFlush(s, ok)
    \/ \E s \in Streams : ProducerCleanupClear(s)
    \/ \E s \in Streams : ProducerCleanupRemove(s)
    \/ \E s \in Streams : ProducerCleanupPop(s)

PacerStep ==
    \/ \E s \in Streams, ok \in BOOLEAN : PacerTop(s, ok)
    \/ \E s \in Streams, ok \in BOOLEAN : PacerFrames(s, ok)
    \/ \E s \in Streams, ok \in BOOLEAN : PacerResume(s, ok)
    \/ \E s \in Streams, w \in BOOLEAN, ok \in BOOLEAN : PacerRebuild(s, w, ok)

WarmupNext ==
    \/ StarterStep
    \/ ProviderStep
    \/ \E s \in Streams : ProducerSentinel(s)
    \/ ProducerStep
    \/ PacerStep
    \/ \E s \in Streams, timed_out \in BOOLEAN : KeepaliveTick(s, timed_out)

\* The event loop runs every task that can run, every sleep ends, and the
\* provider delivers the next chunk it has.  When the provider sends the
\* end-of-stream sentinel is up to the provider.
WarmupFairness ==
    /\ WF_vars(StarterStep)
    /\ WF_vars(ProviderStep)
    /\ WF_vars(ProducerStep)
    /\ WF_vars(PacerStep)

WarmupSpec == WarmupInit /\ [][WarmupNext]_vars /\ WarmupFairness

\* The RTP server on its own; the playback manager is constructed and idle.
RtpInit ==
    /\ PlaybackInit("externalmedia", TRUE,
                    [starts |-> 0, chunks |-> 0, faults |-> 0, stops |-> 0])
    /\ \E lock \in BOOLEAN, allowed \in HostPolicies : RtpConstructed(lock, allowed)
    /\ ToolInit(<<>>, [enabled |-> "absent", transcript_enabled |-> FALSE,
                     leave_voicemail |-> "disabled"],
                [restricted |-> FALSE, names |-> {}])
    /\ DeepgramConstructed("linear16", [sessions |-> 0, msgs |-> 0, frames |-> 0])
    /\ OrchestratorConstructed(<<>>, "none")
    /\ RegistryConstructed
    /\ LocalIdle
    /\ TransferIdle
    /\ EgressIdle
    /\ ConfigIdle
    /\ StoreIdle

RtpNext ==
    \/ RtpStart
    \/ RtpStop
    \/ \E c \in Calls : AllocateSession(c)
    \/ \E c \in Calls : CleanupSession(c)
    \/ \E x \in Ssrcs, c \in Calls : MapSsrcToCallId(x, c)
    \/ \E c \in Calls, empty \in BOOLEAN, sock \in {"accepts", "would-block"} :
          SendAudio(c, empty, sock)
    \/ \E c \in Calls, pkt \in Packets : Receive(c, pkt)
    \/ \E c \in Calls : RecvError(c)

RtpSpec == RtpInit /\ [][RtpNext]_vars

\* The tool adapter on its own, with the conversation so far and the call's
\* tool configuration; the playback manager and the RTP server are idle.
ToolsInit ==
    /\ PlaybackInit("externalmedia", TRUE,
                    [starts |-> 0, chunks |-> 0, faults |-> 0, stops |-> 0])
    /\ RtpConstructed(TRUE, [restricted |-> FALSE, hosts |-> {}])
    /\ \E messages \in Histories(MaxHistory), config \in ToolConfigs, allowed \in Allowlists :
          /\ config.leave_voicemail = "configured"
          /\ ToolInit(messages, config, allowed)
    /\ DeepgramConstructed("linear16", [sessions |-> 0, msgs |-> 0, frames |-> 0])
    /\ OrchestratorConstructed(<<>>, "none")
    /\ RegistryConstructed
    /\ LocalIdle
    /\ TransferIdle
    /\ EgressIdle
    /\ ConfigIdle
    /\ StoreIdle

ToolsNext ==
    \/ \E name \in RequestedNames, item_type \in {"function_call", "message"},
          update_ok \in BOOLEAN, other \in OtherOutcomes :
          HandleToolCallEvent(name, item_type, update_ok, other)
    \/ \E sent \in BOOLEAN, update_ok \in BOOLEAN : VoicemailContinue(sent, update_ok)
    \/ \E websocket \in {"open", "none", "raises"} : SendToolResult(websocket)
    \/ \E sent \in BOOLEAN : SendResponseCreate(sent)

ToolsSpec == ToolsInit /\ [][ToolsNext]_vars

\* The same adapter at the start of a conversation, under every voicemail
\* configuration.
VoicemailInit ==
    /\ PlaybackInit("externalmedia", TRUE,
                    [starts |-> 0, chunks |-> 0, faults |-> 0, stops |-> 0])
    /\ RtpConstructed(TRUE, [restricted |-> FALSE, hosts |-> {}])
    /\ \E config \in ToolConfigs, allowed \in Allowlists : ToolInit(<<>>, config, allowed)
    /\ DeepgramConstructed("linear16", [sessions |-> 0, msgs |-> 0, frames |-> 0])
    /\ OrchestratorConstructed(<<>>, "none")
    /\ RegistryConstructed
    /\ LocalIdle
    /\ TransferIdle
    /\ EgressIdle
    /\ ConfigIdle
    /\ StoreIdle

VoicemailSpec == VoicemailInit /\ [][ToolsNext]_vars

\* The playback manager, the RTP server and the tool adapter as constructed,
\* for the specifications of the other components.
PlaybackIdle ==
    PlaybackInit("externalmedia", TRUE, [starts |-> 0, chunks |-> 0, faults |-> 0, stops |-> 0])

RtpIdle == RtpConstructed(TRUE, [restricted |-> FALSE, hosts |-> {}])

ToolsIdle ==
    ToolInit(<<>>, [enabled |-> "absent", transcript_enabled |-> FALSE,
                    leave_voicemail |-> "disabled"],
             [restricted |-> FALSE, names |-> {}])

DeepgramIdle == DeepgramConstructed("linear16", [sessions |-> 0, msgs |-> 0, frames |-> 0])

OrchestratorIdle == OrchestratorConstructed(<<>>, "none")

\* The Deepgram provider on its own.
DeepgramInit ==
    /\ PlaybackIdle
    /\ RtpIdle
    /\ ToolsIdle
    /\ OrchestratorIdle
    /\ RegistryConstructed
    /\ LocalIdle
    /\ TransferIdle
    /\ EgressIdle
    /\ ConfigIdle
    /\ StoreIdle
    /\ \E encoding \in InputEncodings, scenario \in DgScenarios :
          DeepgramConstructed(encoding, scenario)

DeepgramNext ==
    \/ StartSession
    \/ ConfigureSendSettings
    \/ \E s \in DgSessions : FallbackReady(s)
    \/ \E acked \in BOOLEAN : ConfigureDone(acked)
    \/ \E s \in DgSessions : InjectGreetingIfQuiet(s)
    \/ \E s \in DgSessions, et \in ServerJson : RecvJson(s, et)
    \/ \E s \in DgSessions : RecvBoundary(s)
    \/ \E s \in DgSessions : RecvAfterDone(s)
    \/ \E s \in DgSessions : RecvInvalid(s)
    \/ \E s \in DgSessions : RecvAudio(s)
    \/ \E s \in DgSessions : ConnectionLost(s)
    \/ StopSession
    \/ \E s \in DgSessions : RecvClosed(s)
    \/ \E s \in DgSessions : RecvFinally(s)
    \/ \E units \in 1..(UnitsPerFrame + 1) : SendCallerAudio(units)

DeepgramSpec == DeepgramInit /\ [][DeepgramNext]_vars

\* The pipeline orchestrator on its own.
OrchestratorInit ==
    /\ PlaybackIdle
    /\ RtpIdle
    /\ ToolsIdle
    /\ DeepgramIdle
    /\ RegistryConstructed
    /\ LocalIdle
    /\ TransferIdle
    /\ EgressIdle
    /\ ConfigIdle
    /\ StoreIdle
    /\ \E pipelines \in PipelineConfigs, active \in RequestedPipelines :
          OrchestratorConstructed(pipelines, active)

OrchestratorNext ==
    \/ OrchStart
    \/ \E c \in OrchCalls, pipeline_name \in RequestedPipelines : GetPipeline(c, pipeline_name)
    \/ \E c \in OrchCalls : ReleasePipeline(c)
    \/ \E r \in 1..MaxResolutions, outcome \in CallOutcomes : ShutdownStep(r, outcome)
    \/ OrchStop
    \/ OrchStopRelease
    \/ OrchStopped

OrchestratorSpec == OrchestratorInit /\ [][OrchestratorNext]_vars

\* The tool registry on its own, from empty.
RegistryInit ==
    /\ PlaybackIdle
    /\ RtpIdle
    /\ ToolsIdle
    /\ DeepgramIdle
    /\ OrchestratorIdle
    /\ RegistryConstructed
    /\ LocalIdle
    /\ TransferIdle
    /\ EgressIdle
    /\ ConfigIdle
    /\ StoreIdle

RegistryNext ==
    \/ \E name \in ToolNames : Register(name)
    \/ \E name \in ToolNames : Unregister(name)

RegistrySpec == RegistryInit /\ [][RegistryNext]_vars

\* The writers of one call's session on their own.
StoreInit ==
    /\ PlaybackIdle
    /\ RtpIdle
    /\ ToolsIdle
    /\ DeepgramIdle
    /\ OrchestratorIdle
    /\ RegistryConstructed
    /\ LocalIdle
    /\ TransferIdle
    /\ EgressIdle
    /\ ConfigIdle
    /\ StoreConstructed(MaxRounds)

StoreNext ==
    \/ \E w \in Writers : StoreGet(w)
    \/ \E w \in Writers : StoreUpsert(w)

StoreSpec == StoreInit /\ [][StoreNext]_vars

\* Start calls and cleanups under every configuration of the bounded sets.
ConfigInit ==
    /\ PlaybackIdle
    /\ RtpIdle
    /\ ToolsIdle
    /\ DeepgramIdle
    /\ OrchestratorIdle
    /\ RegistryConstructed
    /\ LocalIdle
    /\ TransferIdle
    /\ EgressIdle
    /\ StoreIdle
    /\ \E c \in StreamingConfigs : ConfigConstructed(c)

ConfigNext ==
    \/ \E t \in PlaybackTypes, gap \in Gaps : StartThresholds(t, gap)
    \/ CleanupGrace

ConfigSpec == ConfigInit /\ [][ConfigNext]_vars

\* One stream's egress frames for every mode and target format.
EgressInit ==
    /\ PlaybackIdle
    /\ RtpIdle
    /\ ToolsIdle
    /\ DeepgramIdle
    /\ OrchestratorIdle
    /\ RegistryConstructed
    /\ LocalIdle
    /\ TransferIdle
    /\ StoreIdle
    /\ ConfigIdle
    /\ \E mode \in SwapModes, fmt \in TargetFormats :
          EgressConstructed(mode, fmt, MaxEgressFrames)

EgressNext ==
    \/ \E inbound \in BOOLEAN : EgressStart(inbound)
    \/ \E frame \in EgressFrames : EgressFrame(frame)

EgressSpec == EgressInit /\ [][EgressNext]_vars

\* Attended transfers of one call, for both values of the capture flag.
TransferInit ==
    /\ PlaybackIdle
    /\ RtpIdle
    /\ ToolsIdle
    /\ DeepgramIdle
    /\ OrchestratorIdle
    /\ RegistryConstructed
    /\ LocalIdle
    /\ StoreIdle
    /\ ConfigIdle
    /\ EgressIdle
    /\ \E audio_capture_enabled \in BOOLEAN :
          TransferConstructed(audio_capture_enabled, MaxTransfers)

TransferNext ==
    \/ \E destination \in TransferDestinations, moh_started \in BOOLEAN :
          TransferExecute(destination, moh_started)
    \/ TransferRecord
    \/ \E outcome \in OriginateOutcomes : TransferOriginate(outcome)
    \/ \E moh_stopped \in BOOLEAN : CleanupStopMoh(moh_stopped)
    \/ CleanupClearAction
    \/ TransferRegister

TransferSpec == TransferInit /\ [][TransferNext]_vars

\* The local provider: initialize, then connections lost and made again.
LocalInit ==
    /\ PlaybackIdle
    /\ RtpIdle
    /\ ToolsIdle
    /\ DeepgramIdle
    /\ OrchestratorIdle
    /\ RegistryConstructed
    /\ StoreIdle
    /\ ConfigIdle
    /\ EgressIdle
    /\ TransferIdle
    /\ LocalConstructed(MaxConnections)

LocalNext ==
    \/ Initialize
    \/ ConnectionClosed
    \/ \E result \in ConnectOutcomes : ConnectAttempt(result)
    \/ BackoffSleep
    \/ ReconnectReturned

LocalSpec == LocalInit /\ [][LocalNext]_vars

(* ============================== claims ================================= *)
\* A step in which the transport accepts a frame.
FrameSentStep == Len(txlog') = Len(txlog) + 1

Happened(ev, s) == [ev |-> ev, sid |-> s] \in history

\* The producer of stream s is inside its loop (not yet in its cleanup).
Streaming(s) == active_streams.stream_id = s /\ producer[s].pc \in {"wait", "put"}

\* C1: only the stream that holds the call's gating token hands frames to
\* the transport: whenever a pacer or a tail flush sends a frame, the frame's
\* stream id is the current gating token.
C1_OnlyTokenHolderSends ==
    [][FrameSentStep => Last(txlog').sid = gating_token]_vars

\* C2: while the call's active stream s is streaming, the session's
\* current_stream_id is s and the gating token is s.
C2_ActiveStreamOwnsSessionAndToken ==
    \A s \in Streams :
        Streaming(s) => session.current_stream_id = s /\ gating_token = s

\* C3: a start_streaming_playback call that arrives while the call has an
\* active stream, or while an earlier start is suspended before registering
\* its stream, returns the existing stream id and changes nothing: jitter
\* buffer, session, gating token and tasks stay as they are.
C3_StartIsIdempotent ==
    [][\A i \in Streams :
          (/\ starter[i].pc = "idle"
           /\ starter'[i].pc # "idle"
           /\ (is_stream_active \/ \E j \in Streams : starter[j].pc \in {"gate", "register"}))
          => (/\ UNCHANGED <<jitter_buffers, session, gating_token, producer, pacer,
                             keepalive, keepalive_tasks, active_streams>>
              /\ starter'[i].pc = "done"
              /\ starter'[i].ret \in Streams)]_vars

\* C4: a stream that ends by the sentinel with no failed send and no stop
\* ends with end_reason "end-of-stream", has handed exactly the queued bytes
\* to the transport and has recorded no underflow.
C4_SentinelDeliversAllQueuedAudio ==
    (faults = 0 /\ \A k \in Stops : stopper[k].pc = "idle")
    => \A n \in 1..Len(endlog) :
          /\ endlog[n].reason = "end-of-stream"
          /\ endlog[n].tx_bytes = endlog[n].queued_bytes
          /\ endlog[n].underflow_events = 0

\* C5: a pacer sends a frame of a stream only after that stream's
\* startup-ready flag was set by the warm-up estimate, or the stream started
\* as a back-to-back resume.
C5_NoFrameBeforeWarmUp ==
    [][(FrameSentStep /\ Last(txlog').by = "pacer")
          => (\/ [ev |-> "warmed", sid |-> Last(txlog').sid] \in history'
              \/ [ev |-> "resumed", sid |-> Last(txlog').sid] \in history')]_vars

\* C6: a stream one of whose pacer sends failed ends with end_reason
\* "transport-failure".
C6_SendFailureEndsStream ==
    \A n \in 1..Len(endlog) :
        Happened("send-failed", endlog[n].entry) => endlog[n].reason = "transport-failure"

\* C7: a stream whose producer timed out has exactly one fallback recorded,
\* with reason "timeout>", and ends with that reason as its end_reason.
C7_TimeoutEndsWithRecordedReason ==
    \A n \in 1..Len(endlog) :
        (Happened("timeout", endlog[n].entry) /\ faults = 1)
        => /\ session.streaming_fallback_count = 1
           /\ session.last_streaming_error = "timeout>"
           /\ endlog[n].reason = session.last_streaming_error

\* C8: a stream on which the keepalive check timed out ends with end_reason
\* "keepalive-timeout".
C8_KeepaliveTimeoutEndsStream ==
    \A n \in 1..Len(endlog) :
        Happened("keepalive-timeout", endlog[n].entry)
        => endlog[n].reason = "keepalive-timeout"

\* C9: the remainder of a stream is flushed at most once, while the stream
\* still holds the gating token, as one frame_size frame on AudioSocket and
\* unpadded on RTP.
C9_RemainderFlushedOnce ==
    [][(FrameSentStep /\ Last(txlog').kind = "tail")
          => (/\ \A n \in 1..Len(txlog) :
                    ~(txlog[n].kind = "tail" /\ txlog[n].sid = Last(txlog').sid)
              /\ gating_token = Last(txlog').sid
              /\ Len(Last(txlog').data) = IF audio_transport = "audiosocket" THEN FrameSize
                                          ELSE Len(frame_remainders))]_vars

\* The audio bytes of stream s that reached the transport, in send order,
\* without filler frames and without the zero padding of a tail frame.
RECURSIVE AudioOf(_, _)
AudioOf(s, log) ==
    IF log = <<>> THEN <<>>
    ELSE IF Head(log).sid = s /\ Head(log).kind # "filler"
    THEN SelectSeq(Head(log).data, LAMBDA b : b # 0) \o AudioOf(s, Tail(log))
    ELSE AudioOf(s, Tail(log))

\* C10: what the transport got of one stream is a prefix of the audio offered
\* to it, byte for byte, in order and without repetition.
C10_FramesInAudioOrder ==
    \A s \in Streams :
        \A k \in 1..Len(AudioOf(s, txlog)) : AudioOf(s, txlog)[k] = 100 * s + k
\* C11: a stop call that found the call's stream returns true; a stop call
\* made after an earlier stop call returned true returns false and changes
\* nothing of the manager's state, the session, the gating token or the
\* transport.
C11_SecondStopIsNoOp ==
    [][\A k \in Stops :
        /\ (stopper[k].pc # "done" /\ stopper'[k].pc = "done" /\ stopper[k].sid # 0)
               => stopper'[k].ret = "True"
        /\ (/\ stopper[k].pc = "idle" /\ stopper'[k].pc # "idle"
            /\ \E j \in Stops : stopper[j].pc = "done" /\ stopper[j].ret = "True")
               => /\ stopper'[k] = [pc |-> "done", sid |-> 0, ret |-> "False"]
                  /\ UNCHANGED <<audio_transport, session, gating_token, active_streams,
                                 jitter_buffers, queues, frame_remainders, startup_ready,
                                 last_segment_end, keepalive_tasks, producer, pacer,
                                 keepalive, txlog, endlog, history>>]_vars

\* Two stop calls in a row have returned: the first true, the second false.
C11_TwoStopsReturned ==
    /\ stopper[1] = [pc |-> "done", sid |-> 1, ret |-> "True"]
    /\ stopper[2] = [pc |-> "done", sid |-> 0, ret |-> "False"]
    /\ txlog # <<>>

\* C12: a start call returns null only when the gating token could not be
\* acquired.
C12_NullOnlyOnGatingContention ==
    [][\A i \in Streams :
        (starter[i].pc # "done" /\ starter'[i].pc = "done" /\ starter'[i].ret = Null)
            => /\ starter[i].pc = "gate"
               /\ ~set_gating_token_ok(_generate_stream_id(i))]_vars

(* --------------------------- RTP server claims -------------------------- *)
\* The step is one RTP operation `op` on call c.
RtpStep(op, c) ==
    /\ rtp_event'.n = rtp_event.n + 1
    /\ rtp_event'.op = op
    /\ rtp_event'.call = c

\* C13: an inbound RTP v2 packet whose SSRC equals the session's outbound
\* SSRC is not delivered to the provider callback and adds exactly one to
\* the session's echo_packets_filtered.
C13_EchoDroppedAndCounted ==
    [][\A c \in Calls :
        (/\ RtpStep("recv", c)
         /\ rtp_event'.kind = "rtp"
         /\ sessions[c].outbound_ssrc # NoSsrc
         /\ rtp_event'.ssrc = sessions[c].outbound_ssrc)
            => /\ delivered' = delivered
               /\ sessions'[c].echo_packets_filtered = sessions[c].echo_packets_filtered + 1
               /\ sessions'[c].frames_received = sessions[c].frames_received]_vars

\* A session that has delivered caller audio has just filtered an echo.
C13_EchoFiltered ==
    \E c \in Calls :
        /\ rtp_event.op = "recv" /\ rtp_event.call = c /\ rtp_event.kind = "rtp"
        /\ rtp_event.ssrc = sessions[c].outbound_ssrc
        /\ sessions[c].echo_packets_filtered = 1
        /\ delivered[c] = 1

\* C14: send_audio with a chunk returns true whenever the session exists,
\* its remote endpoint is known and the socket accepts the packet, and false
\* only when the endpoint is unknown or the socket write would block.
C14_SendSucceedsWhenEndpointKnown ==
    [][\A c \in Calls :
        RtpStep("send", c)
            => /\ (HasSession(c) /\ sessions[c].remote # NoAddr
                      /\ rtp_event'.kind = "accepts")
                     => rtp_event'.ret = "True"
               /\ rtp_event'.ret = "False"
                     => \/ ~HasSession(c)
                        \/ sessions[c].remote = NoAddr
                        \/ rtp_event'.kind = "would-block"]_vars

\* C15: once a session's inbound and outbound SSRC are both known they
\* differ.
C15_OutboundSsrcDiffers ==
    \A c \in Calls :
        (sessions[c].ssrc # NoSsrc /\ sessions[c].outbound_ssrc # NoSsrc)
            => sessions[c].ssrc # sessions[c].outbound_ssrc

\* C16: when receiving on a session raises, that session's receive loop
\* ends and its port is free again, while the server and the other
\* sessions keep running.
C16_RecvErrorReleasesPort ==
    [][\A c \in Calls :
        RtpStep("recv-error", c)
            => /\ receiver'[c] = "failed"
               /\ port_allocation'[sessions[c].local_port] = 0
               /\ running'
               /\ \A d \in Calls \ {c} :
                     receiver'[d] = receiver[d] /\ sessions'[d] = sessions[d]]_vars

(* -------------------------- tool calling claims ------------------------- *)
\* The step is handle_tool_call_event, and it ran the tool `tool`.
Executes(tool) ==
    adapter.pc = "idle" /\ adapter'.pc = "result" /\ adapter'.executed = tool

\* Some message of the conversation mentions a transcript.
TranscriptOffered(messages) ==
    \E i \in 1..Len(messages) :
        Contains(Lower(messages[i].content),
                 <<"t", "r", "a", "n", "s", "c", "r", "i", "p", "t">>)

\* C17: when transcript sending is enabled and no transcript has been
\* offered in the conversation, hangup_call returns status "blocked" with
\* will_hangup false and ai_should_speak true and leaves cleanup_after_tts
\* as it was.
C17_HangupBlockedUntilTranscriptOffered ==
    [][(/\ Executes("hangup_call")
        /\ tools_config.transcript_enabled
        /\ ~TranscriptOffered(call_session.conversation_history))
          => /\ adapter'.result.status = "blocked"
             /\ adapter'.result.will_hangup = "False"
             /\ adapter'.result.ai_should_speak = "True"
             /\ call_session'.cleanup_after_tts = call_session.cleanup_after_tts]_vars

\* C18: when hangup_call returns without being blocked the session has
\* cleanup_after_tts set, and a result with will_hangup true is returned only
\* with cleanup_after_tts set.
C18_HangupSetsCleanupAfterTts ==
    [][Executes("hangup_call")
          => /\ adapter'.result.status # "blocked" => call_session'.cleanup_after_tts
             /\ adapter'.result.will_hangup = "True" => call_session'.cleanup_after_tts]_vars

\* The types of the events sent on the websocket for tool call n.
RECURSIVE EventsOf(_, _)
EventsOf(n, log) ==
    IF log = <<>> THEN <<>>
    ELSE IF Head(log).call = n THEN <<Head(log).type>> \o EventsOf(n, Tail(log))
    ELSE EventsOf(n, Tail(log))

\* C19: once the adapter is done with a tool call on a working websocket it
\* has sent one function-output event and then one response.create, or the
\* function-output event alone when the tool that ran is hangup_call and the
\* result has will_hangup true.
C19_OutputThenResponseCreate ==
    (adapter.pc = "idle" /\ adapter.n >= 1 /\ ~adapter.faulted)
        => EventsOf(adapter.n, ws_log) =
              IF adapter.executed = "hangup_call" /\ adapter.result.will_hangup = "True"
              THEN <<"function_call_output">>
              ELSE <<"function_call_output", "response.create">>

\* C20: with an allowlist a tool runs only if the requested name is in the
\* allowlist; for any other name, and whenever tools are disabled, the
\* result has status "error" and no tool has run.
C20_AllowlistGatesExecution ==
    [][(adapter.pc = "idle" /\ adapter'.pc = "result")
          => /\ (allowed_tools.restricted /\ adapter'.executed # "none")
                   => adapter'.name \in allowed_tools.names
             /\ (\/ (allowed_tools.restricted /\ adapter'.name \notin allowed_tools.names)
                 \/ tools_config.enabled = "False")
                   => /\ adapter'.result.status = "error"
                      /\ adapter'.executed = "none"
                      /\ call_session' = call_session]_vars

\* Under an allowlist holding hangup_call, a first call ran hangup_call and a
\* second call asking for its alias end_call was rejected.
C20_AliasOutsideAllowlistRejected ==
    /\ allowed_tools = [restricted |-> TRUE, names |-> {"hangup_call"}]
    /\ call_session.cleanup_after_tts
    /\ adapter.n = 2 /\ adapter.pc = "result"
    /\ adapter.name = "end_call" /\ adapter.executed = "none"
    /\ adapter.result.status = "error"

(* ---- C21 ---- *)
\* A step in which leave_voicemail returns a result to the adapter.
VoicemailReturns ==
    /\ adapter.pc # "result"
    /\ adapter'.pc = "result"
    /\ adapter'.executed = "leave_voicemail"
    /\ adapter'.result.status \in {"success", "failed"}

\* A step that issues the ARI continue command.
ContinueIssued == Len(ari_log') = Len(ari_log) + 1

\* C21: transfer_active is already true on the session when the ARI continue
\* command is issued; when leave_voicemail returns, transfer_active is true
\* exactly if the status is success (a failed continue has reset it), and a
\* disabled or unconfigured voicemail leaves the session as it was.
C21_TransferActiveTracksVoicemail ==
    [][ /\ ContinueIssued => call_session.transfer_active
        /\ VoicemailReturns =>
              (call_session'.transfer_active <=> adapter'.result.status = "success")
        /\ (VoicemailReturns /\ tools_config.leave_voicemail # "configured") =>
              call_session' = call_session ]_vars

\* leave_voicemail has returned failed after a continue command that ARI refused.
C21_ContinueFailedAndReset ==
    /\ adapter.pc = "result"
    /\ adapter.executed = "leave_voicemail"
    /\ adapter.result.status = "failed"
    /\ ari_log # <<>>
    /\ ~ari_log[Len(ari_log)].accepted
    /\ ~call_session.transfer_active

(* ---- C22 ---- *)
\* What the receive loop of a session handed to on_event is well formed
\* up to position i: AgentAudioDone only right after AgentAudio, and a
\* control event never right after AgentAudio.
BurstsClosedOnce(events) ==
    \A i \in 1..Len(events) :
        /\ events[i] = "AgentAudioDone" => (i > 1 /\ events[i - 1] = "AgentAudio")
        /\ events[i] = "control" => (i = 1 \/ events[i - 1] # "AgentAudio")

\* C22: in every session each audio burst gets exactly one AgentAudioDone,
\* at the first JSON control frame that arrives in the burst or at the
\* close of the connection, and there is no AgentAudioDone outside a burst.
C22_OneAudioDonePerBurst ==
    \A s \in DgSessions :
        /\ BurstsClosedOnce(dg_events[s])
        /\ dg_tasks[s].recv = "ended" =>
              (dg_events[s] = <<>> \/ dg_events[s][Len(dg_events[s])] # "AgentAudio")

(* ---- C23 ---- *)
\* The greeting injections sent on the connection of session s.
Injections(s) == Cardinality({i \in 1..Len(dg_sent[s]) : dg_sent[s][i].kind = "inject"})

\* A session whose Settings went out, whose quiet window has passed and
\* whose connection has been open all along.
QuietWindowOver(s) ==
    /\ dg_tasks[s].settings
    /\ dg_tasks[s].quiet = "done"
    /\ dg_ws[s] = "open"

\* C23: every session injects the greeting at most twice, and a session
\* that stayed connected through its quiet window has injected it at least
\* once, also the second session of the same provider object.
C23_GreetingOnceOrTwice ==
    \A s \in DgSessions :
        /\ Injections(s) <= 2
        /\ QuietWindowOver(s) => Injections(s) >= 1

(* ---- C24 ---- *)
\* The frame numbers sent on the connection of session s, in order.
RECURSIVE FramesOf(_)
FramesOf(log) ==
    IF log = <<>> THEN <<>>
    ELSE IF log[1].kind = "frame" THEN <<log[1].frame>> \o FramesOf(Tail(log))
    ELSE FramesOf(Tail(log))

CallerAudioStep == dg'.framed # dg.framed \/ dg'._pcm16_accum # dg._pcm16_accum

FramesOnWire == FramesOf(dg_sent[dg.websocket])

RECURSIVE CloseBeforeStop(_, _)
CloseBeforeStop(log, closed) ==
    IF log = <<>> THEN TRUE
    ELSE /\ log[1].method = "stop" => log[1].adapter \in closed
         /\ CloseBeforeStop(Tail(log),
                            IF log[1].method = "close_call"
                            THEN closed \cup {log[1].adapter} ELSE closed)

\* C25: while a call holds a resolution that no release_pipeline has taken
\* away, get_pipeline for that call returns that very resolution; a release
\* removes it and calls close_call before stop on each of its adapters.
C25_ResolutionMemoizedUntilRelease ==
    [][ /\ \A c \in OrchCalls :
              (/\ orch._assignments[c] # NoResolution
               /\ orch_event'.op = "get_pipeline"
               /\ orch_event'.call_id = c
               /\ orch_event' # orch_event \/ orch' # orch)
              => orch_event'.ret = orch._assignments[c]
        /\ \A c \in OrchCalls :
              (orch_event'.op = "release_pipeline" /\ orch_event'.call_id = c
               /\ orch' # orch)
              => orch'._assignments[c] = NoResolution
        /\ \A r \in 1..MaxResolutions : CloseBeforeStop(orch_log'[r], {}) ]_vars

(* ---- C26 ---- *)
\* The last three operations were register, unregister, register of tool.
ReRegistered(tool) ==
    registry.ops = <<[op |-> "register", name |-> tool],
                     [op |-> "unregister", name |-> tool],
                     [op |-> "register", name |-> tool]>>

SameLookups(tools, other) == \A name \in LookupNames : get(tools, name) = get(other, name)

\* C26 as stated: after register, unregister, register of a tool the name
\* lookups, the alias lookups and the tool list are those of the registry
\* after a single register.
C26_ReRegisterEqualsRegister ==
    \A tool \in ToolNames :
        ReRegistered(tool) =>
            /\ SameLookups(registry._tools, register(registry.base, tool))
            /\ list_tools(registry._tools) = list_tools(register(registry.base, tool))

\* C26, amended: the lookups and the set of listed tools are those after a
\* single register; the order of the list is the same when the tool was not
\* registered before or was the last one registered.
C26_ReRegisterEqualsRegisterUpToOrder ==
    \A tool \in ToolNames :
        ReRegistered(tool) =>
            LET once == register(registry.base, tool)
            IN  /\ SameLookups(registry._tools, once)
                /\ Registered(list_tools(registry._tools)) = Registered(list_tools(once))
                /\ Len(registry._tools) = Len(once)
                /\ (tool \notin Registered(registry.base) \/ once[Len(once)] = tool)
                      => list_tools(registry._tools) = list_tools(once)

\* A tool that was registered before others has been registered,
\* unregistered and registered again, and now comes last.
C26_ReRegisteredMovesLast ==
    \E tool \in ToolNames :
        /\ ReRegistered(tool)
        /\ tool \in Registered(registry.base)
        /\ registry.base[Len(registry.base)] # tool
        /\ registry._tools[Len(registry._tools)] = tool

(* ----------------------------------------------------------------------- *)
(* Streams that follow one another on a call (Spec)                         *)
(* ----------------------------------------------------------------------- *)
\* The step of a _cleanup_stream(call_id, stream_id) call, made by the
\* producer of stream_id or by a stop of it, that removes the call's state.
CleanupRemoves(stream_id) ==
    \/ /\ producer[stream_id].pc = "cl_remove"
       /\ producer'[stream_id].pc = "cl_pop"
    \/ \E k \in Stops : /\ stopper[k].sid = stream_id
                        /\ stopper[k].pc = "cl_remove"
                        /\ stopper'[k].pc = "cl_pop"

\* The call's state belongs to a stream other than stream_id: that stream
\* has registered its jitter buffer and its id with the session.
StartedAfter(stream_id) ==
    /\ jitter_buffers \notin {0, stream_id}
    /\ session.current_stream_id \notin {0, stream_id}

\* C27: a cleanup of stream s that runs once another stream s' of the call
\* has been started leaves the jitter buffer, the startup-ready flag, the
\* session's current_stream_id and streaming flag and the active_streams
\* entry of s' untouched.
C27_CleanupLeavesLaterStream ==
    [][\A s \in Streams :
          CleanupRemoves(s) /\ StartedAfter(s)
              => /\ jitter_buffers' = jitter_buffers
                 /\ startup_ready' = startup_ready
                 /\ session'.current_stream_id = session.current_stream_id
                 /\ session'.streaming_started = session.streaming_started
                 /\ active_streams' = active_streams]_vars


\* The streams whose producer is in its loop, whose pacer has not returned
\* and whose keepalive has not returned.
ProducersAlive == {s \in Streams : producer[s].pc \in {"wait", "put", "fallback"}}

PacersAlive == {s \in Streams : pacer[s].pc \notin {"unborn", "done"}}

KeepalivesAlive == {s \in Streams : keepalive[s] \notin {"unborn", "done"}}

\* C28: at any time the call has at most one producer, one pacer and one
\* keepalive task alive: the tasks of a stream that has ended do not run on
\* into a later stream of the call.
C28_OneTaskOfEachKind ==
    /\ Cardinality(ProducersAlive) <= 1
    /\ Cardinality(PacersAlive) <= 1
    /\ Cardinality(KeepalivesAlive) <= 1

\* Invocation i of start_streaming_playback returns a stream id in this step.
ReturnsStreamId(i) ==
    /\ starter[i].ret = NotReturned
    /\ starter'[i].ret \notin {NotReturned, Null}

\* C30: when start_streaming_playback returns a stream id, the producer of
\* that stream is running in its loop; the call never returns the id of a
\* stream that has reached end-of-stream and waits in its cleanup.
C30_ReturnedStreamHasRunningProducer ==
    [][\A i \in Streams :
          ReturnsStreamId(i) => producer'[starter'[i].ret].pc \in {"wait", "put"}]_vars

(* ----------------------------------------------------------------------- *)
(* Warm-up of a stream (WarmupSpec)                                         *)
(* ----------------------------------------------------------------------- *)
\* Stream s is warming up behind a full jitter buffer: the producer is
\* blocked in put and the pacer has not declared the stream startup-ready.
WarmupBlocked(s) ==
    /\ active_streams.stream_id = s
    /\ ~startup_ready
    /\ producer[s].pc = "put"
    /\ Len(queues[s]) = jb_chunks

FirstFrameSent(s) ==
    \E k \in 1..Len(txlog) : /\ txlog[k].sid = s
                             /\ txlog[k].by = "pacer"
                             /\ txlog[k].kind = "audio"

BetweenSteps(s) ==
    /\ active_streams.stream_id = s
    /\ jitter_buffers = s
    /\ producer[s].pc \in {"wait", "put"}
    /\ pacer[s].pc \in {"top", "rebuild", "resume"}

\* C31: between producer and pacer steps buffered_bytes equals the bytes
\* in the jitter queue plus the bytes in the remainder buffer, and it is
\* never negative.
C31_BufferedBytesTracksQueue ==
    \A s \in Streams :
        BetweenSteps(s) =>
            /\ active_streams.buffered_bytes >= 0
            /\ active_streams.buffered_bytes = SumLen(queues[s]) + Len(frame_remainders)

Started == computed.op = "start"

\* The gap since the previous segment's end is at most the configured
\* provider_grace_ms.
WithinGrace == computed.gap # NoPrevious /\ computed.gap <= streaming_config.provider_grace_ms

\* C33: a stream starts startup-ready exactly when the gap since the
\* previous segment's end is at most provider_grace_ms; with a larger gap
\* or no previous segment it starts not ready, for every provider_grace_ms
\* including 0.
C33_ReadyIffWithinGrace ==
    Started => (computed.th.initial_startup_ready <=> WithinGrace)

C35_LowWatermarkFormula ==
    Started =>
        /\ computed.th.low_watermark_chunks =
              Min(computed.th.self_low_watermark_chunks,
                  Min(computed.th.min_start_chunks - 1, computed.th.jb_chunks \div 2))
        /\ computed.th.low_watermark_chunks >= CeilDiv(2 * computed.th.min_start_chunks, 3)

\* C35, amended: the configured low watermark is raised to
\* ceil(2/3 x min_start_chunks) first, and the effective
\* low_watermark_chunks is the smallest of that, min_start_chunks - 1 and
\* floor(jitter_buffer_chunks / 2).
C35_LowWatermarkFloorThenCap ==
    Started =>
        computed.th.low_watermark_chunks =
            Min(Max(computed.th.self_low_watermark_chunks,
                    CeilDiv(2 * computed.th.min_start_chunks, 3)),
                Min(computed.th.min_start_chunks - 1, computed.th.jb_chunks \div 2))

\* A low watermark above zero that a cap has brought below
\* ceil(2/3 x min_start_chunks).
C35_LowWatermarkCapped ==
    /\ Started
    /\ computed.th.low_watermark_chunks > 0
    /\ computed.th.low_watermark_chunks < CeilDiv(2 * computed.th.min_start_chunks, 3)

\* C36: whatever provider_grace_ms is configured, the cleanup waits at
\* most 60 ms before it flushes the remainder and releases the gating token.
C36_CleanupGraceCapped ==
    computed.op = "cleanup" => computed.waited_ms <= 60

(* ---------------- PCM16 egress byte order (EgressSpec) ------------------ *)

\* The frames of the stream that carry audio, in the order they were sent.
SentFrames == SelectSeq(egress_log, LAMBDA e : e.pcm # <<>>)

AutoPcm16Stream ==
    /\ egress.egress_swap_mode = "auto"
    /\ IsPcm16(egress.audiosocket_format)
    /\ SentFrames # <<>>

\* The probe of the first frame finds the swapped bytes louder.
ProbeFindsSwapped ==
    rms(byteswap(SentFrames[1].pcm)) >= Max(512, 4 * rms(SentFrames[1].pcm))

ProbedOnFirstFrameOnly == \A k \in DOMAIN SentFrames : SentFrames[k].probed <=> (k = 1)

SwappedFromFirstFrameOn ==
    \A k \in DOMAIN SentFrames :
        /\ SentFrames[k].egress_swap
        /\ (k > 1 => SentFrames[k].out = byteswap(SentFrames[k].pcm))

\* C37: with mode auto and a PCM16 target the probe runs on the first frame
\* of the stream only; if it finds rms_swapped >= max(512, 4 x rms_native),
\* egress_swap is true from then on, every later frame is sent byte-swapped
\* and the correction counter stands at exactly one.
C37_ProbeOnceAndCountOnce ==
    AutoPcm16Stream =>
        /\ ProbedOnFirstFrameOnly
        /\ (ProbeFindsSwapped => SwappedFromFirstFrameOn /\ egress.corrections = 1)

\* C37 as the code has it: the counter is incremented once when the stream
\* started with egress_swap false, and not at all when the inbound probe
\* had already turned egress_swap on at the start of the stream.
C37_ProbeOnceAndCountOnceIfFlipped ==
    AutoPcm16Stream =>
        /\ ProbedOnFirstFrameOnly
        /\ (ProbeFindsSwapped =>
               /\ SwappedFromFirstFrameOn
               /\ egress.corrections = (IF egress.initial_swap THEN 0 ELSE 1))

\* A stream that started unswapped, was corrected by its first frame and
\* sent every frame it could after that.
C37_CorrectedStream ==
    /\ AutoPcm16Stream
    /\ ~egress.initial_swap
    /\ ProbeFindsSwapped
    /\ Len(SentFrames) = MaxEgressFrames
    /\ egress.corrections = 1

\* C40: with mode force_false egress_swap is false at every moment of the
\* stream and every frame is sent in its native byte order, whatever the
\* RMS of the frames.
C40_ForceFalseNeverSwaps ==
    egress.egress_swap_mode = "force_false" =>
        /\ ~egress.stream_info.egress_swap
        /\ \A k \in DOMAIN egress_log :
              ~egress_log[k].egress_swap /\ egress_log[k].out = egress_log[k].pcm

\* A force_false PCM16 stream whose first frame is louder when swapped.
C40_ForceFalseLoudSwapped ==
    /\ egress.egress_swap_mode = "force_false"
    /\ IsPcm16(egress.audiosocket_format)
    /\ SentFrames # <<>>
    /\ ProbeFindsSwapped
    /\ SentFrames[1].probed
    /\ Len(egress_log) = MaxEgressFrames

(* -------------------- attended transfer (TransferSpec) ------------------ *)

OriginateFailed ==
    /\ xfer.pc = "done"
    /\ xfer.result = [status |-> "failed", cause |-> "originate"]

\* C38: when originating the agent leg fails, the tool returns "failed" and
\* the call is as it was before the tool ran: music on hold stopped,
\* current_action cleared, audio_capture_enabled back at the value it had
\* before the tool disabled it.
C38_FailedOriginateRestoresCall ==
    OriginateFailed =>
        /\ ~xfer_call.moh
        /\ xfer_call.stored.current_action = NoAction
        /\ xfer_call.stored.audio_capture_enabled = xfer.before.audio_capture_enabled

(* ----------------------- local provider (LocalSpec) --------------------- *)

\* The attempts _reconnect has made so far in this run.
AttemptsMade == Len(local.errors) + (IF local.success = "true" THEN 1 ELSE 0)

IsPrefix(s, t) == Len(s) <= Len(t) /\ s = SubSeq(t, 1, Len(s))

AllAttemptsFailed == Len(local.errors) = Len(backoff_schedule)

ReconnectOver == local.pc \in {"returned", "idle"} /\ local.caller # "none"

\* No more than eight attempts, none after a success, and after the eighth
\* failure _reconnect is over with False, which initialize turns into an
\* exception.
EightAttemptsThenFailure ==
    /\ AttemptsMade <= 8
    /\ local.success = "true" => ReconnectOver /\ local.attempt = AttemptsMade
    /\ AllAttemptsFailed =>
          /\ ReconnectOver
          /\ local.success = "false"
          /\ (local.pc = "idle" /\ local.caller = "initialize") => local.outcome = "raised"

====
